---- MODULE Spec2Model ----
(***************************************************************************)
(* HomebrewDIY request-processing runtime (bin/serverware.js,              *)
(* bin/workers.js, bin/nativeware.js, bin/apiware.js, jxDB, helpers).      *)
(*                                                                         *)
(* The module holds several specifications over one set of variables, one  *)
(* per part of the runtime:                                                *)
(*   SpecToken     workers.jwt and helpers.base64                          *)
(*   SpecErr       workers.httpStatusMsg and the error handler             *)
(*   SpecRouter    serverware.addRoute and serverware.router               *)
(*   SpecModify    jxDB.modify, jxDB.changed and jxDB.save                 *)
(*   SpecAuth      serverware.authenticate and workers.logins.log          *)
(*   SpecAccount   nativeware.account, POST /user/change, and its response *)
(*   SpecApi       apiware.api: inquire and cache behind recipe.auth       *)
(*   SpecMerge     Object.prototype.mergekeys as jxDB.modify applies it    *)
(*   SpecQuery     jxDB.query and what its result shares with the store    *)
(*   SpecPersist   jxDB's readOnly, changed and save, and the file         *)
(*   SpecLogin     nativeware.login behind serverware.authenticate         *)
(*   SpecActivate  nativeware.account, GET and POST /user/code             *)
(*   SpecContent   nativeware.content, GET, with the file cache            *)
(*   SpecCache     nativeware.content, GET, overlapping requests           *)
(*   SpecPath      helpers.resolveSafePath                                 *)
(*   SpecGzip      nativeware.content, GET: FileEntry.load and content     *)
(*   SpecBody      serverware.bodyParse and the temp directory             *)
(*   SpecPipeline  App.start: router, cors, processResponse, errorHandler  *)
(*   SpecUpload    nativeware.content: the auth gates and POST             *)
(*   SpecProxy     proxyware.proxyRouter: the route of a Host header       *)
(*   SpecSni       proxyware.Proxy: the watcher and sslContext             *)
(*   SpecSniLive   SpecSni with every event and reload step taken          *)
(*   SpecWatch     jxDB: changed, save, watchDB and reload                 *)
(*   SpecOneShot   short codes: GET and POST /user/code and Basic logins   *)
(*   SpecNever     jxDB.lookup and jxDB.query by name or recipe object     *)
(*   SpecBind      apiware.api, several instances in one process           *)
(* Every specification starts from Init; the variables of the other parts  *)
(* stay at their initial value.                                            *)
(***************************************************************************)
EXTENDS Integers, Sequences, FiniteSets, TLC

VARIABLES
    tnow,       \* SpecToken: the clock, in milliseconds (new Date().valueOf())
    tok,        \* SpecToken: the token the client holds, [h, p, s] or NoToken
    tmint,      \* SpecToken: what jwt.create built: the payload and the secret
    tres        \* SpecToken: the last jwt.verify call and its result

tokVars == <<tnow, tok, tmint, tres>>

(***************************************************************************)
(* Bounds of the model.                                                    *)
(***************************************************************************)
MaxNowMs == 3000            \* the token clock stops here
TickMs == 500               \* one step of the token clock
JwtCfgExpiration == 1       \* jwt.cfg.expiration, minutes (configured)
MaxRoutes == 3              \* the route table holds at most this many entries
MaxRecs == 3                \* a collection holds at most this many records
MaxEntries == 2             \* one modify call carries at most this many entries
MaxCalls == 2               \* modify is called at most this many times
MaxAuthMs == 720000         \* the authentication clock stops here (12 minutes)
AuthTickMs == 360000        \* one step of the authentication clock (6 minutes)
MaxCount == 4               \* no request is made that takes Alice's failure count past this
MaxOtherCount == 1          \* nor another username's failure count past this

(***************************************************************************)
(* helpers.base64 (helpers.js).  Text is a sequence of bytes 0..255, a     *)
(* base64 string a sequence of characters: 0..63 are the alphabet in       *)
(* order ('+' is 62, '/' is 63), PAD is '=', MINUS is '-', UNDER is '_'.   *)
(***************************************************************************)
PAD == 64
MINUS == 65
UNDER == 66

RECURSIVE e64(_)
\* e64: new Buffer.from(t).toString('base64')
e64(t) ==
    IF Len(t) = 0 THEN <<>>
    ELSE IF Len(t) = 1 THEN
        <<t[1] \div 4, (t[1] % 4) * 16, PAD, PAD>>
    ELSE IF Len(t) = 2 THEN
        <<t[1] \div 4, ((t[1] % 4) * 16) + (t[2] \div 16), (t[2] % 16) * 4, PAD>>
    ELSE
        <<t[1] \div 4, ((t[1] % 4) * 16) + (t[2] \div 16),
          ((t[2] % 16) * 4) + (t[3] \div 64), t[3] % 64>>
        \o e64(SubSeq(t, 4, Len(t)))

\* the value of one base64 character; Node's decoder also reads '-' and '_'
sextet(c) == IF c = MINUS THEN 62 ELSE IF c = UNDER THEN 63 ELSE c

RECURSIVE d64(_)
\* d64: new Buffer.from(b64,'base64').toString(); decoding stops at '='
d64(s) ==
    LET n == IF \E i \in 1..Len(s) : s[i] = PAD
             THEN (CHOOSE i \in 1..Len(s) :
                      s[i] = PAD /\ \A j \in 1..(i-1) : s[j] # PAD) - 1
             ELSE Len(s)
        b == [i \in 1..n |-> sextet(s[i])]
    IN
    IF n < 2 THEN <<>>
    ELSE IF n = 2 THEN <<(b[1] * 4) + (b[2] \div 16)>>
    ELSE IF n = 3 THEN
        <<(b[1] * 4) + (b[2] \div 16), ((b[2] % 16) * 16) + (b[3] \div 4)>>
    ELSE
        <<(b[1] * 4) + (b[2] \div 16), ((b[2] % 16) * 16) + (b[3] \div 4),
          ((b[3] % 4) * 64) + b[4]>>
        \o d64(SubSeq(s, 5, Len(s)))

RECURSIVE strip(_, _)
\* s.replace(/c/g,'')
strip(s, c) ==
    IF Len(s) = 0 THEN <<>>
    ELSE (IF s[1] = c THEN <<>> ELSE <<s[1]>>) \o strip(Tail(s), c)

\* s.replace(/a/g,b)
subst(s, a, b) == [i \in 1..Len(s) |-> IF s[i] = a THEN b ELSE s[i]]

\* b64u: base64 to base64url
b64u(s) == subst(subst(strip(s, PAD), 62, MINUS), 63, UNDER)

\* '==='.slice(0,(4-s.length%4)%4)
padding(s) == [i \in 1..((4 - (Len(s) % 4)) % 4) |-> PAD]

\* u64b: base64url to base64
u64b(s) == subst(subst(s \o padding(s), MINUS, 62), UNDER, 63)

(***************************************************************************)
(* JSON text of a token payload.  A payload is an object with the fields   *)
(* username and (optionally) note of the caller's data, and iat, exp, ext  *)
(* added by jwt.create; each value is one byte of the text.                *)
(***************************************************************************)
Null == [kind |-> "null"]
EmptyObj == [kind |-> "empty"]
SyntaxError == [kind |-> "SyntaxError"]
TypeError == [kind |-> "TypeError"]
NullText == <<110, 117, 108, 108>>      \* the text null

\* JSON.stringify(payload)
stringify(o) ==
    <<o.username, o.iat, o.exp, IF o.ext THEN 1 ELSE 0>>
    \o (IF o.note = 0 THEN <<>> ELSE <<o.note>>)

\* JSON.parse(text): the object, null for the text null, or SyntaxError where
\* JSON.parse throws
parse(t) ==
    IF t = NullText THEN Null
    ELSE IF Len(t) \in {4, 5} /\ t[4] \in {0, 1} /\ (Len(t) = 5 => t[5] # 0)
    THEN [kind |-> "obj", username |-> t[1], iat |-> t[2], exp |-> t[3],
          ext |-> (t[4] = 1), note |-> IF Len(t) = 5 THEN t[5] ELSE 0]
    ELSE SyntaxError

\* j64u: JSON to Base64URL
j64u(obj) == b64u(e64(stringify(obj)))

\* u64j: Base64URL to JSON; {} when parsing throws
u64j(s) == LET o == parse(d64(u64b(s))) IN IF o = SyntaxError THEN EmptyObj ELSE o

(***************************************************************************)
(* helpers.hmac: the base64 digest of msg under key.  The digest is        *)
(* idealised as the key followed by the message (injective in both), so a  *)
(* signature is reproduced only by who holds the key.                      *)
(***************************************************************************)
DOT == 67
CfgSecret == 201            \* jwt.cfg.secret
OtherSecret == 202          \* some other key
NoSecret == 0               \* the secret argument left out

hmac(msg, key) == e64(<<key>> \o msg)

RECURSIVE split(_, _)
\* s.split(c): the pieces of s between the occurrences of c
split(s, c) ==
    IF \A i \in 1..Len(s) : s[i] # c THEN <<s>>
    ELSE LET k == CHOOSE i \in 1..Len(s) :
                      s[i] = c /\ \A j \in 1..(i-1) : s[j] # c
         IN <<SubSeq(s, 1, k-1)>> \o split(SubSeq(s, k+1, Len(s)), c)

\* (jwt+"..").split('.',3)
fields(jwt) == SubSeq(split(jwt \o <<DOT, DOT>>, DOT), 1, 3)

\* a||b on numbers
orElse(a, b) == IF a # 0 THEN a ELSE b

JwtHeader == <<72, 83>>     \* the text of {alg:'HS256',typ:'JWT'}
JwtRenewal == FALSE         \* jwt.cfg.renewal

\* the payload jwt.create builds at time now (ms) when jwt.cfg.renewal is renewal
jwtPayloadCfg(data, expiration, now, renewal) ==
    [kind |-> "obj", username |-> data.username, note |-> data.note,
     iat |-> now \div 1000,    \* new Date().valueOf()/1000|0
     exp |-> orElse(expiration * 60, orElse(data.exp, JwtCfgExpiration * 60)),
     ext |-> renewal]

\* jwt.create when jwt.cfg.renewal is renewal
jwtCreateCfg(data, secret, expiration, now, renewal) ==
    LET encHeader == b64u(e64(JwtHeader))
        encPayload == j64u(jwtPayloadCfg(data, expiration, now, renewal))
        signature == b64u(hmac(encHeader \o <<DOT>> \o encPayload,
                               orElse(secret, CfgSecret)))
    IN encHeader \o <<DOT>> \o encPayload \o <<DOT>> \o signature

\* the payload jwt.create builds with the configuration's renewal
jwtPayload(data, expiration, now) == jwtPayloadCfg(data, expiration, now, JwtRenewal)

\* jwt.create
jwtCreate(data, secret, expiration, now) == jwtCreateCfg(data, secret, expiration, now, JwtRenewal)

\* jwt.expired, let { exp, iat } = payload: destructuring null throws
jwtExpiredThrows(payload) == payload = Null

\* jwt.expired: new Date(1000*(iat+exp)) < new Date(); {} has no iat (NaN)
jwtExpired(payload, now) ==
    IF payload.kind # "obj" THEN FALSE
    ELSE 1000 * (payload.iat + payload.exp) < now

\* jwt.extract
jwtExtract(jwt) ==
    LET f == fields(jwt)
    IN [header |-> f[1], payload |-> u64j(f[2]), signature |-> f[3]]

\* jwt.verify
jwtVerify(jwt, secret, now) ==
    LET f == fields(jwt)
        chkSignature == b64u(hmac(f[1] \o <<DOT>> \o f[2], orElse(secret, CfgSecret)))
        payloadData == u64j(f[2])
        expired == jwtExpired(payloadData, now)
    IN IF jwtExpiredThrows(payloadData) THEN TypeError
       ELSE IF f[3] = chkSignature /\ ~expired THEN payloadData ELSE Null

(***************************************************************************)
(* SpecToken: a client asks for tokens, keeps one, may alter it, and has   *)
(* it verified while the clock runs.                                       *)
(***************************************************************************)
NoToken == <<>>
TokUsernames == {251, 255}          \* bytes whose base64 text uses '+' and '/'
TokNotes == {0, 7}                  \* 0: the data has no note
TokDataExp == {0, 1, 2}             \* data.exp in seconds; 0: no exp in the data
TokExpirations == {0, 1}            \* the expiration argument, minutes; 0: left out
TokSecrets == {NoSecret, OtherSecret}
TokData == [username : TokUsernames, note : TokNotes, exp : TokDataExp]

TokInit ==
    /\ tnow = 0
    /\ tok = NoToken
    /\ tmint = [made |-> FALSE]
    /\ tres = [called |-> FALSE]

\* jwt.create(data, secret, expiration) is called and the client keeps the token
TokCreate ==
    /\ ~tmint.made
    /\ \E data \in TokData, secret \in TokSecrets, expiration \in TokExpirations :
         /\ tok' = jwtCreate(data, secret, expiration, tnow)
         /\ tmint' = [made |-> TRUE, token |-> tok',
                      payload |-> jwtPayload(data, expiration, tnow),
                      key |-> orElse(secret, CfgSecret)]
         /\ tres' = [called |-> FALSE]
         /\ UNCHANGED tnow

\* the client replaces the last character of the payload part or of the signature
TokTamper ==
    /\ tmint.made /\ tok = tmint.token
    /\ \E part \in {2, 3}, c \in {1, 2} :
         LET f == fields(tok)
             g == [f EXCEPT ![part] = [f[part] EXCEPT ![Len(f[part])] = c]]
         IN /\ g # f
            /\ tok' = g[1] \o <<DOT>> \o g[2] \o <<DOT>> \o g[3]
    /\ tres' = [called |-> FALSE]
    /\ UNCHANGED <<tnow, tmint>>

\* the client makes up a token whose payload part is the text null
TokForge ==
    /\ \E sig \in {1, 2} :
         tok' = b64u(e64(JwtHeader)) \o <<DOT>> \o b64u(e64(NullText)) \o <<DOT, sig>>
    /\ tok' # tok
    /\ tres' = [called |-> FALSE]
    /\ UNCHANGED <<tnow, tmint>>

\* time passes
TokTick ==
    /\ tnow + TickMs <= MaxNowMs
    /\ tnow' = tnow + TickMs
    /\ UNCHANGED <<tok, tmint, tres>>

\* jwt.verify(jwt, secret) is called on the client's token
TokVerify ==
    /\ tok # NoToken
    /\ \E secret \in TokSecrets :
         tres' = [called |-> TRUE, token |-> tok, at |-> tnow,
                  key |-> orElse(secret, CfgSecret),
                  result |-> jwtVerify(tok, secret, tnow)]
    /\ UNCHANGED <<tnow, tok, tmint>>

TokNext == TokCreate \/ TokTamper \/ TokForge \/ TokTick \/ TokVerify

\* C7 as stated: verifying the minted token under the minting secret returns
\* the payload jwt.create built, until the clock is past iat+exp, and then
\* null; any token whose signature is not the HMAC of its header.payload
\* verifies to null.
C7_TokenRoundTrip ==
    tres.called =>
        LET f == fields(tres.token)
            minted == tmint.made /\ tres.token = tmint.token /\ tres.key = tmint.key
        IN /\ f[3] # b64u(hmac(f[1] \o <<DOT>> \o f[2], tres.key))
                => tres.result = Null
           /\ minted /\ tres.at > 1000 * (tmint.payload.iat + tmint.payload.exp)
                => tres.result = Null
           /\ minted /\ tres.at <= 1000 * (tmint.payload.iat + tmint.payload.exp)
                => tres.result = tmint.payload

\* the part of C7 that holds: the round trip of minted tokens, and null for
\* every token with a wrong signature whose payload part is not the text null
C7_MintedRoundTrip ==
    tres.called =>
        LET f == fields(tres.token)
            minted == tmint.made /\ tres.token = tmint.token /\ tres.key = tmint.key
        IN /\ (f[3] # b64u(hmac(f[1] \o <<DOT>> \o f[2], tres.key))
                 /\ d64(u64b(f[2])) # NullText) => tres.result = Null
           /\ minted /\ tres.at > 1000 * (tmint.payload.iat + tmint.payload.exp)
                => tres.result = Null
           /\ minted /\ tres.at <= 1000 * (tmint.payload.iat + tmint.payload.exp)
                => tres.result = tmint.payload

\* a token minted with a note and its own exp, verified under the minting
\* secret later than iat and before its expiry, gave back its payload
C7_Seen_Fresh ==
    /\ tres.called /\ tmint.made /\ tres.token = tmint.token
    /\ tres.key = tmint.key /\ tres.result = tmint.payload
    /\ tmint.payload.note # 0 /\ tmint.payload.exp = 2
    /\ tres.at > 1000 * tmint.payload.iat

\* a minted token verified after its expiry gave null
C7_Seen_Expired ==
    /\ tres.called /\ tmint.made /\ tres.token = tmint.token
    /\ tres.key = tmint.key /\ tres.result = Null
    /\ tres.at > 1000 * (tmint.payload.iat + tmint.payload.exp)

\* an altered token gave null
C7_Seen_Altered ==
    /\ tres.called /\ tmint.made /\ tres.token # tmint.token
    /\ tres.key = tmint.key /\ tres.result = Null

(***************************************************************************)
(* workers.httpStatusMsg and serverware.defineErrorHandler.                *)
(*                                                                         *)
(* A thrown value is a record: kind "bare" for a number or a string (val:  *)
(* the number it reads as, 0 for a text that is no number), kind "obj" for *)
(* an object (hasCode, code, hasMsg, msg, text: what toString() gives).    *)
(***************************************************************************)
VARIABLES
    ecfg,       \* SpecErr: the handler's configuration, or Undefined before start()
    eerr,       \* SpecErr: the value caught by the request's catch, or NoErr
    eres        \* SpecErr: the http.ServerResponse of the request

errVars == <<ecfg, eerr, eres>>

\* the keys of httpCodes
ValidCodes == {200, 201, 202, 304, 400, 401, 403, 404, 405, 413, 500, 501, 503}

httpCodes(c) ==
    CASE c = 200 -> "OK"
      [] c = 201 -> "Created"
      [] c = 202 -> "Accepted"
      [] c = 304 -> "Not Modified"
      [] c = 400 -> "Bad Request"
      [] c = 401 -> "NOT Authorized!"
      [] c = 403 -> "Forbidden"
      [] c = 404 -> "File NOT found!"
      [] c = 405 -> "Method Not Allowed"
      [] c = 413 -> "Payload Too Large"
      [] c = 500 -> "Internal Server Error"
      [] c = 501 -> "Not Supported"
      [] c = 503 -> "Service U?navailable"
      [] OTHER -> "UNKNOWN ERROR"       \* httpCodes[..] || 'UNKNOWN ERROR'

validCode(c) == c \in ValidCodes

\* the non-object branch of httpStatusMsg; String(error) is the value as text
httpStatusMsgBare(val) ==
    LET c == IF validCode(val) THEN val ELSE 500
        m == httpCodes(val)
    IN [error |-> c > 399, code |-> c, msg |-> m,
        detail |-> IF m = "UNKNOWN ERROR" THEN <<"String", val>> ELSE <<>>]

\* workers.httpStatusMsg
httpStatusMsg(error) ==
    IF error.kind = "obj"
    THEN LET ext == httpStatusMsgBare(IF error.hasCode /\ validCode(error.code)
                                      THEN error.code ELSE 500)
         IN [ext EXCEPT !.detail = IF error.hasMsg THEN error.msg ELSE error.text]
    ELSE httpStatusMsgBare(error.val)

Undefined == [kind |-> "undefined"]
NoErr == [kind |-> "none"]
NoRes == [kind |-> "none"]

\* what a request can throw: bare codes (throw 404), texts, {code, msg} objects
\* (throw {code: 401, msg: ..}) and Error objects, with or without a code
ThrownCodes == ValidCodes \cup {418}
ThrownBare == [kind : {"bare"}, val : ThrownCodes \cup {0}]
ThrownObj ==
    [kind : {"obj"}, hasCode : {TRUE}, code : ThrownCodes, hasMsg : BOOLEAN,
     msg : {"Authentication failed!"}, text : {"[object Object]"}]
    \cup [kind : {"obj"}, hasCode : {FALSE}, code : {0}, hasMsg : {FALSE},
          msg : {""}, text : {"TypeError: x is undefined"}]
Thrown == ThrownBare \cup ThrownObj

\* a new http.ServerResponse: statusCode is 200 until something sets it;
\* before: whether the headers had gone out when the error was caught
newResponse(sent) ==
    [kind |-> "res", statusCode |-> 200, statusMessage |-> "", headersSent |-> sent,
     headers |-> {}, location |-> FALSE, body |-> <<>>, ended |-> FALSE, before |-> sent]

\* res.writeHead(code, ..): throws ERR_HTTP_HEADERS_SENT once the headers are out
\* (the handler's catch swallows it)
writeHead(res, code, msg, loc) ==
    IF res.headersSent THEN res
    ELSE [res EXCEPT !.statusCode = code, !.statusMessage = msg,
                     !.location = loc, !.headersSent = TRUE]

\* a variant that sets the envelope's code as the status before writing
writeJSONWithStatus(res, ex) ==
    [res EXCEPT !.headers = @ \cup {"Content-Type", "Content-Length"},
                !.statusCode = ex.code,
                !.headersSent = TRUE, !.body = Append(@, <<"JSON", ex>>)]

\* res.setHeader(..) twice and res.write(eText): the first write sends the head
\* with the statusCode the response has
writeJSON(res, ex) ==
    [res EXCEPT !.headers = @ \cup {"Content-Type", "Content-Length"},
                !.headersSent = TRUE, !.body = Append(@, <<"JSON", ex>>)]

\* res.end()
end(res) == [res EXCEPT !.headersSent = TRUE, !.ended = TRUE]

ErrInit ==
    /\ ecfg = Undefined
    /\ eerr = NoErr
    /\ eres = NoRes

\* App.start: defineErrorHandler(cfg); redirect = cfg.redirect || null
defineErrorHandler ==
    /\ ecfg = Undefined
    /\ \E r \in BOOLEAN : ecfg' = [kind |-> "cfg", redirect |-> r]
    /\ UNCHANGED <<eerr, eres>>

\* the catch of the request callback: something threw while the request was
\* prepared, routed or answered
ErrCatch ==
    /\ ecfg # Undefined /\ eerr = NoErr
    /\ \E err \in Thrown, sent \in BOOLEAN :
         /\ eerr' = err
         /\ eres' = newResponse(sent)
    /\ UNCHANGED ecfg

\* errorHandler(err, ctx, res)
errorHandler ==
    /\ eerr # NoErr /\ ~eres.ended
    /\ LET ex == httpStatusMsg(eerr)
       IN eres' = end(IF ex.code = 404 /\ ecfg.redirect
                      THEN writeHead(eres, 301, "", TRUE)
                      ELSE IF ex.code < 400
                      THEN writeHead(eres, ex.code, ex.msg, FALSE)
                      ELSE IF ~eres.headersSent
                      THEN writeJSON(eres, ex)
                      ELSE eres)
    /\ UNCHANGED <<ecfg, eerr>>

\* the next request arrives
ErrNextRequest ==
    /\ eerr # NoErr /\ eres.ended
    /\ eerr' = NoErr /\ eres' = NoRes
    /\ UNCHANGED ecfg

ErrNext == defineErrorHandler \/ ErrCatch \/ errorHandler \/ ErrNextRequest

VARIABLES
    rtable,     \* SpecRouter: self.routes
    rreq,       \* SpecRouter: ctx.request (method, pathname) or NoReq
    rindex,     \* SpecRouter: ctx.routing.index
    rstack,     \* SpecRouter: the handlers now running, innermost last
    rpc,        \* SpecRouter: "build", "idle", "router", "handler" or "done"
    rran,       \* SpecRouter: the entries whose handler was called, in call order
    rres        \* SpecRouter: how the request's router call ended

rtVars == <<rtable, rreq, rindex, rstack, rpc, rran, rres>>

NoReq == [kind |-> "none"]
RouteMethods == {{"any"}, {"get"}, {"post"}}
RoutePatterns == {"", "/a"}
RequestMethods == {"get", "head", "post"}
RequestPaths == {"/a", "/b"}

\* a variant of verbChk in which get does not stand for head
verbChkExact(v, m) == v = m \/ v = "any"

\* verbChk of parseRequestProperties
verbChk(v, m) == v = m \/ (v = "get" /\ m = "head") \/ v = "any"

\* ctx.verbIs(vs)
verbIs(vs, m) == \E v \in vs : verbChk(v, m)

\* route.test(pathname): the pattern against the path
pathMatch(route, pathname) == route = pathname

\* the check of the router's loop for one entry
check(entry, req) ==
    verbIs(entry.method, req.method) /\ (entry.route = "" \/ pathMatch(entry.route, req.pathname))

\* the entries after index i (0-based count of entries already taken) that pass
matchesFrom(table, req, i) == {j \in (i + 1)..Len(table) : check(table[j], req)}

Min(S) == CHOOSE x \in S : \A y \in S : x <= y

RtInit ==
    /\ rtable = <<>>
    /\ rreq = NoReq
    /\ rindex = 0
    /\ rstack = <<>>
    /\ rpc = "build"
    /\ rran = <<>>
    /\ rres = NoRes

\* serverware.addRoute(table, method, route, asyncFunc), called by App.build
addRoute ==
    /\ rpc = "build" /\ Len(rtable) < MaxRoutes
    /\ \E m \in RouteMethods, r \in RoutePatterns :
         rtable' = Append(rtable, [method |-> m, route |-> r])
    /\ UNCHANGED <<rreq, rindex, rstack, rpc, rran, rres>>

\* App.start: the server listens
RtListen ==
    /\ rpc = "build"
    /\ rpc' = "idle"
    /\ UNCHANGED <<rtable, rreq, rindex, rstack, rran, rres>>

\* the request callback: createContext(), prepRequest, then sw.router.call(this, ctx)
RtRequest ==
    /\ rpc \in {"idle", "done"}
    /\ \E m \in RequestMethods, p \in RequestPaths :
         rreq' = [kind |-> "req", method |-> m, pathname |-> p]
    /\ rindex' = 0 /\ rstack' = <<>> /\ rran' = <<>> /\ rres' = NoRes
    /\ rpc' = "router"
    /\ UNCHANGED rtable

\* a variant of the router that searches from the first entry on every call
routerFromStart ==
    /\ rpc = "router"
    /\ Len(rran) < MaxRoutes
    /\ LET found == matchesFrom(rtable, rreq, 0)
       IN IF found = {}
          THEN /\ rindex' = Len(rtable) + 1
               /\ rres' = [kind |-> "notfound", code |-> 404]
               /\ rstack' = <<>> /\ rpc' = "done"
               /\ UNCHANGED rran
          ELSE /\ rindex' = Min(found)
               /\ rran' = Append(rran, Min(found))
               /\ rstack' = Append(rstack, Min(found))
               /\ rpc' = "handler"
               /\ UNCHANGED rres
    /\ UNCHANGED <<rtable, rreq>>

\* serverware.router(ctx): the loop takes entries from ctx.routing.index on
\* until one passes, and calls its handler; past the last entry it throws 404,
\* which every handler waiting in ctx.next() passes on
router ==
    /\ rpc = "router"
    /\ LET found == matchesFrom(rtable, rreq, rindex)
       IN IF found = {}
          THEN /\ rindex' = Len(rtable) + 1
               /\ rres' = [kind |-> "notfound", code |-> 404]
               /\ rstack' = <<>> /\ rpc' = "done"
               /\ UNCHANGED rran
          ELSE /\ rindex' = Min(found)
               /\ rran' = Append(rran, Min(found))
               /\ rstack' = Append(rstack, Min(found))
               /\ rpc' = "handler"
               /\ UNCHANGED rres
    /\ UNCHANGED <<rtable, rreq>>

\* the running handler returns its data (or what ctx.next() gave it)
HandlerReturn ==
    /\ rpc = "handler"
    /\ rstack' = SubSeq(rstack, 1, Len(rstack) - 1)
    /\ IF Len(rstack) = 1
       THEN rres' = [kind |-> "data", by |-> rstack[1]] /\ rpc' = "done"
       ELSE UNCHANGED <<rres, rpc>>
    /\ UNCHANGED <<rtable, rreq, rindex, rran>>

\* the running handler throws, or calls ctx.next(err)
HandlerThrow ==
    /\ rpc = "handler"
    /\ \E c \in {401, 500} : rres' = [kind |-> "thrown", code |-> c]
    /\ rstack' = <<>> /\ rpc' = "done"
    /\ UNCHANGED <<rtable, rreq, rindex, rran>>

\* the running handler calls ctx.next()
HandlerNext ==
    /\ rpc = "handler"
    /\ rpc' = "router"
    /\ UNCHANGED <<rtable, rreq, rindex, rstack, rran, rres>>

RtNext ==
    addRoute \/ RtListen \/ RtRequest \/ router \/ HandlerReturn \/ HandlerThrow \/ HandlerNext

\* C8: within one request the handlers are called in table order, each the
\* first entry after the one called before it (or from the start) whose method
\* and path both pass, so none is called twice; the index moves past the table
\* only when no entry is left, and then the request has failed with 404.
C8_RoutingOrder ==
    /\ \A k \in 1..(Len(rran) - 1) : rran[k] < rran[k + 1]
    /\ \A k \in 1..Len(rran) :
         LET after == matchesFrom(rtable, rreq, IF k = 1 THEN 0 ELSE rran[k - 1])
         IN /\ check(rtable[rran[k]], rreq)
            /\ rran[k] \in after
            /\ \A j \in after : rran[k] <= j
    /\ rpc \in {"handler", "router"} => rindex = (IF rran = <<>> THEN 0 ELSE rran[Len(rran)])
    /\ rindex > Len(rtable) =>
         /\ rres = [kind |-> "notfound", code |-> 404]
         /\ matchesFrom(rtable, rreq, IF rran = <<>> THEN 0 ELSE rran[Len(rran)]) = {}
    /\ (rpc = "done" /\ rres.kind = "data") => rran # <<>> /\ rres.by = rran[1]

\* C8 witness: two handlers ran through the continuation, an entry between
\* them was passed over, and the table was then exhausted with 404
C8_Witness ==
    /\ rpc = "done" /\ rres = [kind |-> "notfound", code |-> 404]
    /\ Len(rran) = 2 /\ rran[1] = 1 /\ rran[2] = 3

(***************************************************************************)
(* jxDB.modify on one collection.  A record is a function from some of the *)
(* field names to values; an index is 0-based as in the code, so index i   *)
(* is position i+1 of the sequence.  Nil stands for null.                  *)
(*                                                                         *)
(* The recipe's reference and unique are JSONata expressions stored in the *)
(* database, not code: reference is taken to yield {index, record} of the  *)
(* first record whose id equals $ref (nothing when there is none), unique  *)
(* to yield {key: 'id', value: one more than the largest id}.              *)
(***************************************************************************)
VARIABLES
    drecipe,    \* SpecModify: the recipe of the calls, or Undefined before it is stored
    dcoll,      \* SpecModify: privateDB[recipe.collection]
    dtimex,     \* SpecModify: this.timex is a pending timeout
    dcall,      \* SpecModify: the last modify call: data, results, the store along the way
    dcalls      \* SpecModify: how many modify calls were made

dbVars == <<drecipe, dcoll, dtimex, dcall, dcalls>>

Nil == -1
EmptyRec == [k \in {} |-> 0]
NoCall == [kind |-> "none"]
NullEntry == [ref |-> Nil, has |-> FALSE, record |-> EmptyRec]     \* an entry that is null

\* Object mergekeys on flat records: the merged keys replace or extend this
mergekeys(this, merged) ==
    [k \in DOMAIN this \cup DOMAIN merged |->
        IF k \in DOMAIN merged THEN merged[k] ELSE this[k]]

\* jsonata(recipe.reference).evaluate(db, {ref}): undefined is [found |-> FALSE]
reference(coll, ref) ==
    LET hits == {i \in 1..Len(coll) : "id" \in DOMAIN coll[i] /\ coll[i].id = ref}
    IN IF hits = {} THEN [found |-> FALSE]
       ELSE [found |-> TRUE, index |-> Min(hits) - 1, record |-> coll[Min(hits)]]

\* jsonata(recipe.unique).evaluate(db)
unique(coll) ==
    LET ids == {coll[i].id : i \in {j \in 1..Len(coll) : "id" \in DOMAIN coll[j]}}
    IN [key |-> "id", value |-> IF ids = {} THEN 1 ELSE 1 + CHOOSE m \in ids : \A x \in ids : x <= m]

\* a variant of db whose splice takes the record before the index as well
dbSpliceTwo(coll, index, hasValue, value) ==
    IF index = Nil THEN Append(coll, value)
    ELSE IF ~hasValue
    THEN SubSeq(coll, 1, index - 1) \o SubSeq(coll, index + 2, Len(coll))
    ELSE [coll EXCEPT ![index + 1] = value]

\* this.db(collection, index, value): push when index is null, splice when
\* value is undefined, assignment otherwise
db(coll, index, hasValue, value) ==
    IF index = Nil THEN Append(coll, value)
    ELSE IF ~hasValue
    THEN SubSeq(coll, 1, index) \o SubSeq(coll, index + 2, Len(coll))
    ELSE [coll EXCEPT ![index + 1] = value]

\* the body of modify's loop for one entry d = [ref, has, record]; ref 0 is a
\* ref that is null, undefined or otherwise falsy, has FALSE a record that is.
\* Gives the store after, the result pushed, and whether changed() was called.
modifyEntry(recipe, coll, d) ==
    LET ref == IF d.ref = 0 THEN Nil ELSE d.ref
        looked == IF ref # Nil /\ recipe.reference THEN reference(coll, ref)
                  ELSE [found |-> FALSE]
        existing == IF looked.found THEN looked
                    ELSE [found |-> FALSE, index |-> Nil, record |-> recipe.defaults]
    IN IF ref = Nil /\ ~d.has
       THEN [coll |-> coll, result |-> <<"bad", Nil, Nil>>, changed |-> FALSE]
       ELSE IF d.has
       THEN LET merged == mergekeys(mergekeys(recipe.defaults, existing.record), d.record)
            IN IF existing.index = Nil
               THEN LET newRecord == IF recipe.unique
                                     THEN mergekeys(merged, [id |-> unique(coll).value])
                                     ELSE merged
                    IN [coll |-> db(coll, Nil, TRUE, newRecord),
                        result |-> <<"add", IF recipe.unique THEN unique(coll).value ELSE Nil,
                                     Len(coll)>>,
                        changed |-> TRUE]
               ELSE [coll |-> db(coll, existing.index, TRUE, merged),
                     result |-> <<"change", ref, existing.index>>, changed |-> TRUE]
       ELSE IF existing.index # Nil
       THEN [coll |-> db(coll, existing.index, FALSE, EmptyRec),
             result |-> <<"delete", ref, existing.index>>, changed |-> TRUE]
       ELSE [coll |-> coll, result |-> <<"nop", ref, Nil>>, changed |-> FALSE]

\* modify's for loop: the stores before each entry and after the last, the
\* results in order, and whether any entry called changed().  An entry that
\* is null passes the precheck (typeof null is 'object') and makes d.ref
\* throw; the catch block then reads ref, which is not in its scope, and the
\* ReferenceError leaves modify: the entries before it stay applied.
RECURSIVE modifyLoop(_, _, _)
modifyLoop(recipe, data, acc) ==
    IF data = <<>> THEN acc
    ELSE IF Head(data) = NullEntry THEN acc @@ [thrown |-> TRUE]
    ELSE LET step == modifyEntry(recipe, acc.stores[Len(acc.stores)], Head(data))
         IN modifyLoop(recipe, Tail(data),
                       [stores |-> Append(acc.stores, step.coll),
                        results |-> Append(acc.results, step.result),
                        changed |-> acc.changed \/ step.changed])

\* the recipes: defaults or none, with or without reference and unique
Recipes ==
    [kind : {"recipe"}, defaults : {EmptyRec, [v |-> 9]},
     reference : BOOLEAN, unique : BOOLEAN]

\* what a caller may send as record, and as data
RecordsIn == {EmptyRec, [v |-> 1], [id |-> 2, v |-> 2]}
EntriesIn ==
    [ref : 0..2, has : {TRUE}, record : RecordsIn]
    \cup [ref : 0..2, has : {FALSE}, record : {EmptyRec}]
    \cup {NullEntry}
DataIn == UNION {[1..n -> EntriesIn] : n \in 0..MaxEntries}

DbInit ==
    /\ drecipe = Undefined
    /\ dcoll = <<>>
    /\ dtimex = FALSE
    /\ dcall = NoCall
    /\ dcalls = 0

\* new jxDB(def): the file is read; it holds the recipe and the collection
jxDB ==
    /\ drecipe = Undefined
    /\ \E r \in Recipes : drecipe' = r
    /\ dcoll' = <<[id |-> 1, v |-> 1]>>
    /\ UNCHANGED <<dtimex, dcall, dcalls>>

\* jxDB.prototype.modify(recipeSpec, data) with data an array of objects,
\* changed() included: a changing entry clears and sets the save timeout
modify ==
    /\ drecipe # Undefined /\ dcalls < MaxCalls
    /\ dcalls' = dcalls + 1
    /\ \E data \in DataIn :
         LET run == modifyLoop(drecipe, data,
                               [stores |-> <<dcoll>>, results |-> <<>>, changed |-> FALSE])
         IN /\ \A k \in 1..Len(run.stores) : Len(run.stores[k]) <= MaxRecs
            /\ dcoll' = run.stores[Len(run.stores)]
            /\ dtimex' = (dtimex \/ run.changed)
            /\ dcall' = [kind |-> "call", data |-> data, results |-> run.results,
                         stores |-> run.stores, timex |-> dtimex,
                         thrown |-> "thrown" \in DOMAIN run]
    /\ UNCHANGED drecipe

\* the timeout set by changed() fires and save() runs; the written file is
\* not part of this state
save ==
    /\ dtimex
    /\ dtimex' = FALSE
    /\ UNCHANGED <<drecipe, dcoll, dcall, dcalls>>

DbNext == jxDB \/ modify \/ save

\* the positions of coll whose id is ref, when the recipe has a reference
C10_Hits(coll, ref) ==
    IF drecipe.reference /\ ref # 0
    THEN {i \in 1..Len(coll) : "id" \in DOMAIN coll[i] /\ coll[i].id = ref}
    ELSE {}

\* defaults, then the existing record, then the sent record, field by field
C10_Merged(existing, record) ==
    [f \in DOMAIN drecipe.defaults \cup DOMAIN existing \cup DOMAIN record |->
        IF f \in DOMAIN record THEN record[f]
        ELSE IF f \in DOMAIN existing THEN existing[f]
        ELSE drecipe.defaults[f]]

\* one entry d took the store from before to after and pushed result
C10_Classified(before, d, result, after) ==
    LET hits == C10_Hits(before, d.ref)
        ref == IF d.ref = 0 THEN Nil ELSE d.ref
        pos == CHOOSE i \in hits : \A j \in hits : i <= j
    IN /\ (d.ref = 0 /\ ~d.has) => result = <<"bad", Nil, Nil>> /\ after = before
       /\ (d.has /\ hits = {}) =>
            /\ Len(after) = Len(before) + 1
            /\ SubSeq(after, 1, Len(before)) = before
            /\ result[1] = "add" /\ result[3] = Len(after) - 1
            /\ IF drecipe.unique
               THEN /\ \A i \in 1..Len(before) :
                         "id" \in DOMAIN before[i] => before[i].id # result[2]
                    /\ after[Len(after)] =
                         [C10_Merged(EmptyRec, d.record) EXCEPT !["id"] = result[2]]
                         @@ [id |-> result[2]]
               ELSE /\ result[2] = Nil
                    /\ after[Len(after)] = C10_Merged(EmptyRec, d.record)
       /\ (d.has /\ hits # {}) =>
            /\ result = <<"change", ref, pos - 1>>
            /\ after = [before EXCEPT ![pos] = C10_Merged(before[pos], d.record)]
       /\ (~d.has /\ hits # {}) =>
            /\ result = <<"delete", ref, pos - 1>>
            /\ Len(after) = Len(before) - 1
            /\ \A i \in 1..Len(after) : after[i] = before[IF i < pos THEN i ELSE i + 1]
       /\ (~d.has /\ d.ref # 0 /\ hits = {}) =>
            result = <<"nop", ref, Nil>> /\ after = before

\* C10: every entry of a modify call is classified against the store as the
\* entries before it left it: no ref and no record gives [bad,nil,nil] and no
\* change; a record with an unresolved ref appends the merged record (the
\* unique key assigned when the recipe yields one) and gives [add, value|nil,
\* last index]; a record with a resolved ref replaces the record at that index
\* and gives [change, ref, idx]; no record with a resolved ref removes exactly
\* that record and gives [delete, ref, idx]; no record with an unresolved ref
\* gives [nop, ref, nil] and no change.
C10_ModifyClassifies ==
    dcall # NoCall =>
        /\ ~dcall.thrown => Len(dcall.results) = Len(dcall.data)
        /\ Len(dcall.stores) = Len(dcall.results) + 1
        /\ dcoll = dcall.stores[Len(dcall.stores)]
        /\ \A k \in 1..Len(dcall.results) :
             C10_Classified(dcall.stores[k], dcall.data[k], dcall.results[k],
                            dcall.stores[k + 1])

\* C10 witness: one call added a record and then deleted the one before it
C10_Witness ==
    /\ dcall # NoCall /\ Len(dcall.data) = 2 /\ Len(dcall.results) = 2
    /\ dcall.results[1][1] = "add" /\ dcall.results[2] = <<"delete", 1, 0>>
    /\ Len(dcall.stores[1]) = 1 /\ Len(dcoll) = 1

\* entry d and the triple pushed for it belong together: bad for no ref and
\* no record, add or change for a record, delete or nop for none, and the
\* ref of the entry in a change, delete or nop
C11_TripleOf(d, result) ==
    /\ Len(result) = 3
    /\ result[1] \in {"bad", "add", "change", "delete", "nop"}
    /\ result[1] = "bad" <=> (d.ref = 0 /\ ~d.has)
    /\ result[1] \in {"add", "change"} <=> d.has
    /\ result[1] \in {"change", "delete", "nop"} => result[2] = d.ref

\* C11 as stated: modify returns exactly one [op, ref, idx] triple per input
\* entry, in input order, for every input list, and the same list applied
\* to an equal store gives an equal store and an equal result list.
C11_ModifyOnePerEntry ==
    dcall # NoCall =>
        /\ ~dcall.thrown
        /\ Len(dcall.results) = Len(dcall.data)
        /\ \A k \in 1..Len(dcall.data) : C11_TripleOf(dcall.data[k], dcall.results[k])
        /\ LET again == modifyLoop(drecipe, dcall.data,
                                   [stores |-> <<dcall.stores[1]>>, results |-> <<>>,
                                    changed |-> FALSE])
           IN /\ again.results = dcall.results
              /\ again.stores[Len(again.stores)] = dcoll

\* the part of C11 that holds: for a list of entries that are objects, one
\* triple per entry in input order, and the same outcome on an equal store
C11_ObjectEntries ==
    (dcall # NoCall /\ \A k \in 1..Len(dcall.data) : dcall.data[k] # NullEntry) =>
        C11_ModifyOnePerEntry

(***************************************************************************)
(* serverware.authenticate with workers.auth and workers.logins.           *)
(*                                                                         *)
(* Usernames are the bytes a token payload carries: Alice and Bob have     *)
(* records in the users database, Zed has none, EmptyName is ''.  A        *)
(* bcrypt hash is <<"bcrypt", pw>>: bcrypt.compare(pw, hash) holds for the *)
(* password it was made from and no other.                                 *)
(***************************************************************************)
VARIABLES
    anow,       \* SpecAuth: the clock, in milliseconds
    logins,     \* SpecAuth: workers.logins.data, per username: count and mark
    alast,      \* SpecAuth: the last request: its header and how authenticate ended
    ahist,      \* SpecAuth: when Alice's latest Basic attempts in a row were
                \*           each answered 'Authentication failed!' (the last four)
    acleared    \* SpecAuth: the usernames with a success and no failure logged since

authVars == <<anow, logins, alast, ahist, acleared>>

Alice == 251
Bob == 255
Zed == 250
EmptyName == 0
UnknownKey == 1             \* the key 'unknown' of logins.log
LockMs == 600000            \* 10*60*1000
NoMark == -1                \* no mark stored
LoginKeys == {Alice, Bob, UnknownKey, Zed}

bcryptHash(pw) == <<"bcrypt", pw>>

\* the users database as the recipe userByUsername reads it
UsersDB ==
    (Alice :> [username |-> Alice, status |-> "ACTIVE", member |-> "users",
               credentials |-> [hash |-> bcryptHash("pwA"),
                                passcode |-> [code |-> "777", iat |-> 0, exp |-> 600]]])
    @@ (Bob :> [username |-> Bob, status |-> "PENDING", member |-> "users",
                credentials |-> [hash |-> bcryptHash("pwB"),
                                 passcode |-> [code |-> "", iat |-> 0, exp |-> 0]]])

\* App.getUser: users.query('userByUsername', ..), {} when there is none
getUser(usr) == IF usr \in DOMAIN UsersDB THEN UsersDB[usr] ELSE EmptyObj

\* auth.checkPW: bcrypt.compare(pw, hash)
checkPW(pw, hash) == hash = bcryptHash(pw)

\* a challenge code that is undefined
NoCode == "(undefined)"

\* auth.checkCode.  A passcode whose code is "" stands for no passcode; a
\* passcode without fields is {}: its date is invalid, which is before
\* nothing, and its code is undefined, which only undefined equals.
checkCode(challengeCode, passcode, now) ==
    IF DOMAIN passcode = {} THEN challengeCode = NoCode
    ELSE IF passcode.code = "" THEN FALSE       \* if (!passcode) return false
    ELSE IF (passcode.iat + passcode.exp) * 1000 < now THEN FALSE
    ELSE challengeCode = passcode.code

\* a variant of clear that deletes nothing
clearNothing(entry, key) == entry

\* Internals.clear(tag, key): delete this.data[tag][key] (absent: 0 / NoMark)
clear(entry, key) == [entry EXCEPT ![key] = IF key = "count" THEN 0 ELSE NoMark]

\* Internals.inc(tag, key): value ? value+1 : 1
inc(entry, key) == [entry EXCEPT ![key] = @ + 1]

Locked == [kind |-> "obj", hasCode |-> TRUE, code |-> 401, hasMsg |-> TRUE,
           msg |-> "Too many login attempts; Account locked for 10 minutes!",
           text |-> "[object Object]"]

\* throw {code: 401, msg: ..}
E401(msg) == [kind |-> "obj", hasCode |-> TRUE, code |-> 401, hasMsg |-> TRUE,
              msg |-> msg, text |-> "[object Object]"]

\* a TypeError raised by the runtime
ETypeError == [kind |-> "obj", hasCode |-> FALSE, code |-> 0, hasMsg |-> FALSE,
               msg |-> "", text |-> "TypeError"]

\* the tags authenticate logs under that start with 'fail'
FailTags == {"failed JWT", "failed inactive", "failed login"}

\* workers.logins.log(usr, tag, err) at time now on data; a count of 0 is a
\* count not stored.  Gives the data after and what was thrown (NoErr: nothing).
\* The time stamp stored under the tag itself is never read and is left out.
loginsLog(data, usr0, tag, err, now) ==
    LET usr == IF usr0 = EmptyName THEN UnknownKey ELSE usr0
        e == data[usr]
        mark == IF e.mark = NoMark THEN now ELSE e.mark
        marked == [e EXCEPT !.mark = mark]
    IN IF tag \in FailTags
       THEN IF now < mark + LockMs
            THEN IF inc(marked, "count").count > 3
                 THEN [data |-> [data EXCEPT ![usr] = [inc(marked, "count") EXCEPT !.mark = now]],
                       thrown |-> Locked, key |-> usr]
                 ELSE [data |-> [data EXCEPT ![usr] = inc(marked, "count")],
                       thrown |-> err, key |-> usr]
            ELSE [data |-> [data EXCEPT ![usr] = [count |-> 1, mark |-> now]],
                  thrown |-> err, key |-> usr]
       ELSE [data |-> [data EXCEPT ![usr] = clear(clear(e, "count"), "mark")],
             thrown |-> NoErr, key |-> usr]

\* the token login minted for Alice when the clock was 0, one signed with
\* another key, and a made-up one whose payload part is the text null
TokenAlice == jwtCreate([username |-> Alice, note |-> 0, exp |-> 0], NoSecret, 0, 0)
TokenOtherKey == jwtCreate([username |-> Alice, note |-> 0, exp |-> 0], OtherSecret, 0, 0)
TokenNull == b64u(e64(JwtHeader)) \o <<DOT>> \o b64u(e64(NullText)) \o <<DOT, 1>>

\* the Authorization headers of the requests, as parseAuthHeader splits them:
\* the method in lower case, and the token or the decoded user:pw pair
Headers ==
    [method : {"basic"}, username : {Alice}, pw : {"pwA", "bad", "777"}]
    \cup [method : {"basic"}, username : {Bob}, pw : {"pwB"}]
    \cup [method : {"basic"}, username : {Zed}, pw : {"bad"}]
    \cup [method : {"basic"}, username : {EmptyName}, pw : {""}]
    \cup [method : {"bearer"}, token : {TokenAlice, TokenOtherKey, TokenNull}]
    \cup [method : {"digest", ""}]

\* the request context createContext() gives
NoCtx == [authenticated |-> "", user |-> [username |-> EmptyName, member |-> ""]]

\* parseAuthHeader's username of a bearer token: (fields.payload||{}).username||''
bearerUsername(token) ==
    LET payload == jwtExtract(token).payload
    IN IF payload.kind = "obj" THEN payload.username ELSE EmptyName

\* the Basic branch of authenticate
authenticateBasic(header, data, now) ==
    LET l1 == IF header.username = EmptyName /\ header.pw = ""
              THEN loginsLog(data, header.username, "invalid", NoErr, now).data
              ELSE data
        user == getUser(header.username)
        l2 == IF user = EmptyObj
              THEN loginsLog(l1, header.username, "invalid", NoErr, now).data
              ELSE l1
    IN IF user = EmptyObj \/ user.status # "ACTIVE"
       THEN LET l == loginsLog(l2, IF user = EmptyObj THEN EmptyName ELSE user.username,
                               "failed inactive", E401("Inactive user"), now)
            IN [thrown |-> l.thrown, data |-> l.data, ctx |-> NoCtx, key |-> l.key]
       ELSE IF checkPW(header.pw, user.credentials.hash)
               \/ checkCode(header.pw, user.credentials.passcode, now)
       THEN LET l == loginsLog(l2, user.username, "basic", NoErr, now)
            IN [thrown |-> NoErr, data |-> l.data, key |-> l.key,
                ctx |-> [authenticated |-> "basic",
                         user |-> [f \in DOMAIN user \ {"credentials"} |-> user[f]]]]
       ELSE LET l == loginsLog(l2, user.username, "failed login",
                               E401("Authentication failed!"), now)
            IN [thrown |-> l.thrown, data |-> l.data, ctx |-> NoCtx, key |-> l.key]

\* the bearer branch of authenticate
authenticateBearer(header, data, now) ==
    LET verified == jwtVerify(header.token, NoSecret, now)
    IN IF verified = TypeError
       THEN [thrown |-> ETypeError, data |-> data, ctx |-> NoCtx, key |-> UnknownKey]
       ELSE IF verified = Null
       THEN LET l == loginsLog(data, bearerUsername(header.token), "failed JWT",
                               E401("Expired or Invalid JWT credentials"), now)
            IN [thrown |-> l.thrown, data |-> l.data, ctx |-> NoCtx, key |-> l.key]
       ELSE LET l == loginsLog(data, verified.username, "bearer", NoErr, now)
            IN [thrown |-> NoErr, data |-> l.data, key |-> l.key,
                ctx |-> [authenticated |-> "bearer", user |-> verified]]

\* authenticate(ctx), parseAuthHeader included: what it throws (NoErr: it
\* returns), logins.data after, and the context's authenticated and user
authenticate(header, data, now) ==
    IF header.method = ""
    THEN [thrown |-> E401("Malformed Authorization header"), data |-> data,
          ctx |-> NoCtx, key |-> UnknownKey]
    ELSE IF header.method = "basic" THEN authenticateBasic(header, data, now)
    ELSE IF header.method = "bearer" THEN authenticateBearer(header, data, now)
    ELSE [thrown |-> E401("Authentication Method Not Supported!"), data |-> data,
          ctx |-> NoCtx, key |-> UnknownKey]

AuthInit ==
    /\ anow = 0
    /\ logins = [k \in LoginKeys |-> [count |-> 0, mark |-> NoMark]]
    /\ alast = NoReq
    /\ ahist = <<>>
    /\ acleared = {}

\* requestProcessor for a request that has an Authorization header, up to the
\* end of authenticate; the catch of the request callback takes what it throws
AuthRequest ==
    /\ \E header \in Headers : \E r \in {authenticate(header, logins, anow)} :
         LET failed == r.thrown # NoErr /\ r.thrown # ETypeError
                       /\ r.thrown.msg \in {"Authentication failed!", Locked.msg,
                                            "Inactive user",
                                            "Expired or Invalid JWT credentials"}
             aliceBasic == header.method = "basic" /\ header.username = Alice
         IN /\ r.data[Alice].count <= MaxCount
            /\ \A k \in LoginKeys \ {Alice} : r.data[k].count <= MaxOtherCount
            /\ logins' = r.data
            /\ alast' = [kind |-> "req", header |-> header, at |-> anow,
                         thrown |-> r.thrown, ctx |-> r.ctx, key |-> r.key,
                         logged |-> (failed \/ r.thrown = NoErr),
                         before |-> logins[r.key], cleared |-> (r.key \in acleared),
                         fourFailed |-> (aliceBasic /\ Len(ahist) = 4
                                         /\ ahist[4] - ahist[1] < LockMs)]
            /\ ahist' = IF aliceBasic /\ r.thrown # NoErr
                           /\ r.thrown.msg = "Authentication failed!"
                        THEN (IF Len(ahist) = 4 THEN Tail(ahist) ELSE ahist) \o <<anow>>
                        ELSE IF r.key = Alice /\ (aliceBasic \/ r.thrown = NoErr)
                        THEN <<>>
                        ELSE ahist
            /\ acleared' = IF r.thrown = NoErr THEN acleared \cup {r.key}
                           ELSE IF failed THEN acleared \ {r.key}
                           ELSE acleared
    /\ UNCHANGED anow

\* time passes
AuthTick ==
    /\ anow + AuthTickMs <= MaxAuthMs
    /\ anow' = anow + AuthTickMs
    /\ UNCHANGED <<logins, alast, ahist, acleared>>

AuthNext == AuthRequest \/ AuthTick

\* the header's bearer token is signed under the server secret and not expired
C1_ValidBearer ==
    /\ alast.header.method = "bearer"
    /\ LET f == fields(alast.header.token)
           p == parse(d64(u64b(f[2])))
       IN /\ f[3] = b64u(hmac(f[1] \o <<DOT>> \o f[2], CfgSecret))
          /\ p.kind = "obj"
          /\ alast.at <= 1000 * (p.iat + p.exp)

\* the header's Basic credentials name an ACTIVE user and carry its password
\* or its unexpired short code
C1_ValidBasic ==
    /\ alast.header.method = "basic"
    /\ alast.header.username \in DOMAIN UsersDB
    /\ LET u == UsersDB[alast.header.username]
       IN /\ u.status = "ACTIVE"
          /\ \/ u.credentials.hash = bcryptHash(alast.header.pw)
             \/ /\ u.credentials.passcode.code # ""
                /\ u.credentials.passcode.code = alast.header.pw
                /\ alast.at <= 1000 * (u.credentials.passcode.iat + u.credentials.passcode.exp)

\* C1 as stated: a request is marked authenticated and gets a non-empty user
\* only with a validly signed, unexpired bearer token or with Basic
\* credentials of an ACTIVE user (password or unexpired short code); every
\* other request with an Authorization header fails with 401.
C1_AuthInvariant ==
    alast # NoReq =>
        /\ alast.ctx.authenticated # "" =>
             /\ C1_ValidBearer \/ C1_ValidBasic
             /\ alast.ctx.authenticated = alast.header.method
             /\ alast.ctx.user.username # EmptyName
        /\ ~(C1_ValidBearer \/ C1_ValidBasic) =>
             /\ alast.thrown # NoErr
             /\ httpStatusMsg(alast.thrown).code = 401

\* the part of C1 that holds: only valid credentials authenticate, and a
\* request authenticate lets through has them
C1_OnlyValidAuthenticates ==
    alast # NoReq =>
        /\ alast.ctx.authenticated # "" <=> alast.thrown = NoErr
        /\ alast.thrown = NoErr <=> (C1_ValidBearer \/ C1_ValidBasic)
        /\ alast.thrown # NoErr => httpStatusMsg(alast.thrown).code \in {401, 500}

\* C2 as stated: after four failed Basic authentications of one username
\* within 10 minutes, each answered 'Authentication failed', the fifth attempt
\* for that username is rejected with 'Account locked', whatever its password.
C2_ThrottleLock ==
    (alast # NoReq /\ alast.fourFailed) =>
        /\ alast.thrown # NoErr
        /\ alast.thrown.msg = Locked.msg

\* C3: after a successful authentication of a username its failure count and
\* mark are both absent, and the next failure logged for it gives count 1
\* and a mark of that moment; a failure logged more than 10 minutes after
\* the mark also gives count 1 and a new mark, and is answered as a plain
\* failure.
C3_ThrottleReset ==
    (alast # NoReq /\ alast.logged) =>
        LET e == logins[alast.key]
        IN /\ alast.thrown = NoErr => e = [count |-> 0, mark |-> NoMark]
           /\ (alast.thrown # NoErr /\ alast.cleared) =>
                /\ alast.before = [count |-> 0, mark |-> NoMark]
                /\ e = [count |-> 1, mark |-> alast.at]
           /\ (alast.thrown # NoErr /\ alast.before.mark # NoMark
                 /\ alast.at > alast.before.mark + LockMs) =>
                /\ e = [count |-> 1, mark |-> alast.at]
                /\ alast.thrown.msg # Locked.msg

\* C3 witness: Alice failed, then authenticated, and her next failure, later
\* on, was counted as the first of a window starting then
C3_Witness ==
    /\ alast # NoReq /\ alast.logged /\ alast.key = Alice
    /\ alast.thrown # NoErr /\ alast.cleared /\ alast.at > 0
    /\ logins[Alice] = [count |-> 1, mark |-> alast.at]

\* a failure more than 10 minutes after the mark restarted the count
C3_Seen_WindowRestart ==
    /\ alast # NoReq /\ alast.logged /\ alast.key = Alice /\ alast.thrown # NoErr
    /\ alast.before.count = 3 /\ alast.at > alast.before.mark + LockMs
    /\ logins[Alice] = [count |-> 1, mark |-> alast.at]

(***************************************************************************)
(* Account management: POST /user/change, with the response written for    *)
(* it.  A request is preprocessed (authentication, debug flag), routed to  *)
(* accountMW, and answered by processResponse or by errorHandler.          *)
(***************************************************************************)
VARIABLES
    users,      \* the users collection: username -> record, EmptyUser when there is none
    acct,       \* what the last request did
    acalls      \* the requests made

acctVars == <<users, acct, acalls>>

Carol == 253
AliceUpper == 219           \* Alice in upper case
AcctNames == {Alice, Bob, Carol}

\* String.prototype.toLowerCase on a one-letter name
toLowerCase(c) == IF c \in (192..222) \ {215} THEN c + 32 ELSE c

\* a list of group names is an array, or a string that names them between
\* commas; the string is kept as its parts, '' being the one part ""
Arr(a) == [t |-> "arr", a |-> a]
Str(parts) == [t |-> "str", s |-> parts]
Absent == [t |-> "absent"]

\* helpers.asList: x instanceof Array ? x : (x||'').split(delim)
asList(x) == IF x.t = "arr" THEN x.a ELSE IF x.t = "str" THEN x.s ELSE <<"">>

\* some element of the list is in the set
some(list, set) == \E i \in 1..Len(list) : list[i] \in set

\* a variant of authorize that grants everybody
authorizeAll(allowed, memberOf) == TRUE

\* serverware authorize(allowed, memberOf)
authorize(allowed, memberOf) ==
    IF allowed = Absent THEN TRUE
    ELSE LET granted == asList(allowed)
             membership == asList(memberOf)
         IN \/ some(membership, {granted[i] : i \in 1..Len(granted)})
            \/ some(membership, {"admin"})

\* the context of an unauthenticated request
createContext == [authenticated |-> "", user |-> [username |-> EmptyName, member |-> Str(<<"">>), status |-> ""]]

\* ctx.authorize: ()=>false until authenticate replaces it
ctxAuthorize(ctx, allowed) ==
    IF ctx.authenticated = "" THEN FALSE ELSE authorize(allowed, ctx.user.member)

\* {} as a user record: every key absent
EmptyUser == [username |-> EmptyName, member |-> Absent, status |-> "", credentials |-> Absent,
              password |-> ""]

\* record.credentials of a password: { hash: .., code: {} }
Cred(hash) == [t |-> "obj", hash |-> hash]

\* const DEFAULTS = {member: 'users', status: 'PENDING'}
DEFAULTS == [EmptyUser EXCEPT !.member = Str(<<"users">>), !.status = "PENDING"]

\* mergekeys on a list-valued key: an array is merged index by index into
\* the array there is, into a new one when there is nothing (or ''), and
\* not at all into a non-empty string; anything else replaces
mergeList(this, merged) ==
    IF merged.t = "absent" THEN this
    ELSE IF merged.t = "str" THEN merged
    ELSE IF this.t = "str" /\ this.s # <<"">> THEN this
    ELSE IF this.t = "arr"
    THEN Arr([i \in 1..(IF Len(this.a) > Len(merged.a) THEN Len(this.a) ELSE Len(merged.a)) |->
                 IF i <= Len(merged.a) THEN merged.a[i] ELSE this.a[i]])
    ELSE merged

\* mergekeys on the credentials key: an object is merged into the object there
\* is, a key present with the value undefined replaces
mergeCred(this, merged) == IF merged.t = "absent" THEN this ELSE merged

\* Object.prototype.mergekeys on user records
mergeUser(this, merged) ==
    [username |-> IF merged.username # EmptyName THEN merged.username ELSE this.username,
     member |-> mergeList(this.member, merged.member),
     status |-> IF merged.status # "" THEN merged.status ELSE this.status,
     credentials |-> mergeCred(this.credentials, merged.credentials),
     password |-> IF merged.password # "" THEN merged.password ELSE this.password]

\* helpers.jxCopy of a user record: JSON drops what is undefined
jxCopyUser(u) == IF u.credentials.t = "undefined" THEN [u EXCEPT !.credentials = Absent] ELSE u

\* usersDB.query('userByUsername', {username}) || {}
userByUsername(store, username) ==
    IF username \in DOMAIN store THEN jxCopyUser(store[username]) ELSE EmptyUser

\* App.chgUser: users.modify('changeUser', [{ref: usr, record: data}]), where
\* modify stores defaults merged with the referenced record and with data
chgUser(store, usr, data) ==
    [store EXCEPT ![usr] = mergeUser(mergeUser(EmptyUser, userByUsername(store, usr)), data)]

\* a variant of entry that keeps what was merged
entryAsMerged(admin, exists, existing, merged) == merged

\* accountMW: if (!admin) { entry.member = ..; entry.status = ..; }
entry(admin, exists, existing, merged) ==
    IF admin THEN merged
    ELSE [merged EXCEPT !.member = IF exists THEN existing.member ELSE DEFAULTS.member,
                        !.status = IF exists THEN existing.status ELSE DEFAULTS.status]

NoRecord == [t |-> "null"]

\* a variant of deletePassword that deletes nothing
keepPassword(record) == record

\* delete record.password
deletePassword(record) == [record EXCEPT !.password = ""]

\* a variant of safeCredentials that keeps what the record came with
sentCredentials(record, exists, existing) == record.credentials

\* accountMW: record.credentials = record.password ? {hash: .., code: {}} :
\* exists ? existing.credentials : DEFAULTS.credentials
safeCredentials(record, exists, existing) ==
    IF record.password # "" THEN Cred(bcryptHash(record.password))
    ELSE IF exists THEN existing.credentials
    ELSE [t |-> "undefined"]
Thrown401 == [kind |-> "bare", val |-> 401]

\* accountMW, POST change: the loop over the request body from its i-th entry
RECURSIVE changeLoop(_, _, _, _, _)
changeLoop(ctx, user, store, body, i) ==
    IF i > Len(body) THEN [users |-> store, body |-> body, thrown |-> NoErr]
    ELSE IF body[i] = NoRecord              \* record.username of a record that is no object
    THEN [users |-> store, body |-> body, thrown |-> ETypeError]
    ELSE LET admin == ctxAuthorize(ctx, Str(<<"admin", "manager">>))
             selfAuth == user # EmptyName /\ user = ctx.user.username
             username == toLowerCase(body[i].username)
             existing == userByUsername(store, username)
             exists == existing # EmptyUser
         IN IF exists /\ ~(admin \/ selfAuth)
            THEN [users |-> store, body |-> [body EXCEPT ![i].username = username],
                  thrown |-> Thrown401]
            ELSE IF ~exists \/ username = ctx.user.username \/ admin
            THEN LET credentials == safeCredentials(body[i], exists, existing)
                     record == deletePassword([body[i] EXCEPT !.username = username,
                                                              !.credentials = credentials])
                     safe == [k \in DOMAIN EmptyUser |-> record[k]]
                     merged == mergeUser(mergeUser(mergeUser(EmptyUser, DEFAULTS), existing), safe)
                 IN changeLoop(ctx, user, chgUser(store, username, entry(admin, exists, existing, merged)),
                               [body EXCEPT ![i] = record], i + 1)
            ELSE [users |-> store, body |-> [body EXCEPT ![i].username = username],
                  thrown |-> ETypeError]        \* self.server is undefined

\* authenticate, Basic with the right password: the stored user less its credentials
ctxOf(store, caller) ==
    IF caller = EmptyName THEN createContext
    ELSE [authenticated |-> "basic",
          user |-> [k \in DOMAIN EmptyUser \ {"credentials", "password"} |-> store[caller][k]]]

\* processResponse or errorHandler: the JSON payload written, in debug mode
\* the whole context
payloadOf(ctx, debug, r) ==
    IF r.thrown # NoErr THEN [kind |-> "error", ex |-> httpStatusMsg(r.thrown)]
    ELSE IF debug THEN [kind |-> "ctx", user |-> ctx.user, body |-> r.body]
    ELSE [kind |-> "data"]

\* the payload has a field named credentials
namesCredentials(payload) ==
    /\ payload.kind = "ctx"
    /\ \/ "credentials" \in DOMAIN payload.user
       \/ \E i \in 1..Len(payload.body) :
            /\ payload.body[i] # NoRecord
            /\ payload.body[i].credentials.t = "obj"

MaxBody == 2
MaxAcctCalls == 2

\* the records a request body holds
AcctRecords ==
    [username : {Alice, AliceUpper, Bob, Carol},
     member : {Absent, Arr(<<"admin">>)},
     status : {"", "ACTIVE"},
     password : {"", "new"},
     credentials : {Absent}]
    \cup [username : {Alice, Carol}, member : {Absent}, status : {""},
          password : {"", "new"}, credentials : {Cred(bcryptHash("sent"))}]
    \cup {NoRecord}

AcctBodies == UNION {[1..n -> AcctRecords] : n \in 1..MaxBody}

\* the users that can authenticate, and nobody
AcctCallers(store) ==
    {EmptyName} \cup {u \in AcctNames : store[u].status = "ACTIVE" /\ store[u].credentials.t = "obj"}

AcctInit ==
    /\ users = (Alice :> [username |-> Alice, member |-> Arr(<<"users">>), status |-> "ACTIVE",
                          credentials |-> Cred(bcryptHash("pwA")), password |-> ""])
               @@ (Bob :> [username |-> Bob, member |-> Arr(<<"users", "admin">>), status |-> "ACTIVE",
                           credentials |-> Cred(bcryptHash("pwB")), password |-> ""])
               @@ (Carol :> EmptyUser)
    /\ acct = NoReq
    /\ acalls = 0

\* POST /user/change[/<user>][!] by a caller, with a body; the first request
\* carries up to MaxBody entries, a later one a single entry
accountMW ==
    /\ acalls < MaxAcctCalls
    /\ \E caller \in AcctCallers(users), user \in {EmptyName, Alice},
          debug \in BOOLEAN,
          body \in IF acalls = 0 THEN AcctBodies ELSE [1..1 -> AcctRecords] :
         \E ctx \in {ctxOf(users, caller)} :
         \E r \in {changeLoop(ctx, user, users, body, 1)} :
           /\ users' = r.users
           /\ acct' = [kind |-> "req",
                       admin |-> ctxAuthorize(ctx, Str(<<"admin", "manager">>)),
                       authenticated |-> ctx.authenticated,
                       before |-> users,
                       asked |-> \E i \in 1..Len(body) :
                                    /\ body[i] # NoRecord
                                    /\ body[i].member # Absent /\ body[i].status # "",
                       thrown |-> r.thrown,
                       ctxCredentials |-> "credentials" \in DOMAIN ctx.user,
                       nulls |-> \E i \in 1..Len(body) : body[i] = NoRecord,
                       passwords |-> [u \in AcctNames |->
                                        {body[i].password : i \in {j \in 1..Len(body) :
                                            /\ body[j] # NoRecord
                                            /\ toLowerCase(body[j].username) = u}}],
                       sent |-> {toLowerCase(body[i].username) : i \in {j \in 1..Len(body) :
                                            /\ body[j] # NoRecord
                                            /\ body[j].credentials # Absent}},
                       leak |-> namesCredentials(payloadOf(ctx, debug, r))]
    /\ acalls' = acalls + 1

AcctNext == accountMW

\* C4 as stated: no response payload written to the client has a field named
\* credentials, and the user installed in the request context has none.
C4_NoCredentialsLeak ==
    acct # NoReq => ~acct.leak /\ ~acct.ctxCredentials

C18_StoredCredentials ==
    acct # NoReq =>
        \A u \in AcctNames :
            /\ users[u].password = ""
            /\ IF users[u].credentials.t = "obj"
               THEN \/ users[u].credentials = acct.before[u].credentials
                    \/ \E pw \in acct.passwords[u] \ {""} :
                          users[u].credentials = Cred(bcryptHash(pw))
               ELSE acct.before[u].credentials.t # "obj"

\* C18 witness: records came with credentials, one for a stored user and
\* with a password, and the user is stored with the hash of that password
C18_Witness ==
    /\ acct # NoReq /\ acct.thrown = NoErr
    /\ Alice \in acct.sent
    /\ "new" \in acct.passwords[Alice]
    /\ users[Alice].credentials = Cred(bcryptHash("new"))
    /\ acct.before[Alice].credentials = Cred(bcryptHash("pwA"))

\* C19 (as stated): a POST /user/change with an entry whose record is null
\* is answered with the list of per-item results, whoever calls; for an
\* admin caller the referenced user is deleted, for another caller no user
\* is.  The entry's ref is not part of the model: any stored user that is
\* gone counts as the deleted one.
C19_NullRecordDeletes ==
    (acct # NoReq /\ acct.nulls) =>
        /\ acct.thrown = NoErr
        /\ IF acct.admin
           THEN \E u \in AcctNames : acct.before[u] # EmptyUser /\ users[u] = EmptyUser
           ELSE \A u \in AcctNames : acct.before[u] # EmptyUser => users[u] # EmptyUser

\* The part that holds: no POST /user/change, by whatever caller, deletes a
\* user
C19_NothingDeleted ==
    acct # NoReq =>
        \A u \in AcctNames : acct.before[u] # EmptyUser => users[u] # EmptyUser

(***************************************************************************)
(* Object.prototype.mergekeys on JSON values, as modify uses it to build   *)
(* the record it stores.  A value is a number, a string, null, or an array *)
(* or object; arrays and objects hold their members under their keys, an   *)
(* array under "0", "1", ...                                               *)
(***************************************************************************)
VARIABLES
    mrg         \* the last record key built: the three values and the result

mergeVars == <<mrg>>

Num(n) == [t |-> "num", n |-> n]
Txt(s) == [t |-> "str", s |-> s]
JsNull == [t |-> "null"]
JsArr(o) == [t |-> "arr", o |-> o]
JsObj(o) == [t |-> "obj", o |-> o]

\* const isObj = (obj) => (typeof obj==='object') && (obj!==null) && ..
isObj(v) == v.t \in {"arr", "obj"}

\* this[key] || ..: what JavaScript takes as true
isTruthy(v) ==
    CASE v.t = "num" -> v.n # 0
      [] v.t = "str" -> v.s # ""
      [] v.t \in {"arr", "obj"} -> TRUE
      [] OTHER -> FALSE

\* mergekeys for one key: this[key] after merged[key] went in.  An object or
\* array is merged key by key into what is there if that is truthy, into a
\* new [] or {} if not; merging into a number or string changes nothing.
RECURSIVE mergeValue(_, _)
mergeValue(this, merged) ==
    IF merged.t = "absent" THEN this
    ELSE IF isObj(merged)
    THEN LET base == IF isTruthy(this) THEN this ELSE [t |-> merged.t, o |-> EmptyRec]
         IN IF isObj(base)
            THEN [t |-> base.t,
                  o |-> [k \in DOMAIN base.o \cup DOMAIN merged.o |->
                           IF k \in DOMAIN merged.o
                           THEN mergeValue(IF k \in DOMAIN base.o THEN base.o[k] ELSE Absent,
                                           merged.o[k])
                           ELSE base.o[k]]]
            ELSE base
    ELSE merged

\* the values a key of defaults, of the existing record and of the sent
\* record can hold
MergeValues ==
    {Absent, Num(0), Num(7), Txt(""), Txt("s"), JsNull,
     JsArr(EmptyRec), JsArr("0" :> Txt("x")), JsArr("0" :> Num(1) @@ "1" :> Num(2)),
     JsObj([k |-> Num(7)]), JsObj([j |-> Txt("s")]),
     JsObj([k |-> JsArr("0" :> Num(1) @@ "1" :> Num(2))]), JsObj([k |-> JsArr("0" :> Num(3))]),
     JsObj([k |-> JsObj([j |-> Num(0)])]), JsObj([k |-> JsObj([i |-> Num(1)])])}

MergeInit == mrg = NoCall

\* let newRecord = jxCopy(defaults).mergekeys(existing.record).mergekeys(record),
\* for one key of the three
newRecord ==
    /\ mrg = NoCall
    /\ \E defaults \in MergeValues, existing \in MergeValues, record \in MergeValues \ {Absent} :
        mrg' = [kind |-> "call", defaults |-> defaults, existing |-> existing,
                record |-> record,
                out |-> mergeValue(mergeValue(defaults, existing), record)]

MergeNext == newRecord

\* deepMerge with the right operand winning: objects merge key by key,
\* anything else that comes in replaces what is there
RECURSIVE C12_DeepMerge(_, _)
C12_DeepMerge(this, merged) ==
    IF merged.t = "absent" THEN this
    ELSE IF this.t = "obj" /\ merged.t = "obj"
    THEN JsObj([k \in DOMAIN this.o \cup DOMAIN merged.o |->
                  IF k \notin DOMAIN merged.o THEN this.o[k]
                  ELSE IF k \notin DOMAIN this.o THEN merged.o[k]
                  ELSE C12_DeepMerge(this.o[k], merged.o[k])])
    ELSE merged

\* C12 as stated: the value stored under a key by an add or change is
\* deepMerge(defaults, existing, incoming) with the right operand winning at
\* every level: objects merge recursively, an incoming array replaces the
\* existing array wholesale, an incoming value replaces an existing scalar.
C12_MergeRightWins ==
    mrg # NoCall =>
        mrg.out = C12_DeepMerge(C12_DeepMerge(mrg.defaults, mrg.existing), mrg.record)

\* the part of C12 that holds at the top level: a number, string or null
\* that comes in replaces whatever is there
C12_ScalarReplaces ==
    (mrg # NoCall /\ ~isObj(mrg.record)) => mrg.out = mrg.record

(***************************************************************************)
(* The data API: /$<recipe> answered by inquire (GET) or cache (POST)      *)
(* against the site database.                                              *)
(***************************************************************************)
VARIABLES
    site,       \* the collection of the site database the recipes work on
    api,        \* what the last request did
    apicalls    \* the requests made

apiVars == <<site, api, apicalls>>

MaxApiCalls == 2

\* the recipes of the site database by name; auth is a comma-delimited string
\* or an array of group names, or is not there
ApiRecipe(auth) ==
    [kind |-> "recipe", auth |-> auth, defaults |-> EmptyRec, reference |-> TRUE, unique |-> TRUE]

ApiRecipes ==
    [open |-> ApiRecipe(Absent), blank |-> ApiRecipe(Str(<<"">>)),
     members |-> ApiRecipe(Str(<<"users">>)), staff |-> ApiRecipe(Arr(<<"staff", "manager">>))]

ApiRecipeNames == {"open", "blank", "members", "staff", "nosuch", ""}

\* jxDB.prototype.lookup(recipeName): the recipe of that name, or {}
lookup(recipeName) ==
    IF recipeName \in DOMAIN ApiRecipes THEN ApiRecipes[recipeName] ELSE EmptyObj

\* a value of a list-valued key taken as a condition
truthy(x) == x.t = "arr" \/ (x.t = "str" /\ x.s # <<"">>)

\* the member values of the users that call
ApiMembers ==
    {Str(<<"users">>), Arr(<<"users">>), Arr(<<"users", "staff">>), Str(<<"manager">>),
     Arr(<<"users", "admin">>), Str(<<"admin">>), Str(<<"">>), Absent}

\* the contexts of the requests: unauthenticated, or with the user
\* authenticate installed
ApiContexts ==
    {createContext}
    \cup [authenticated : {"basic", "bearer"},
          user : [username : {Alice}, member : ApiMembers, status : {"ACTIVE"}]]

\* the request bodies: arrays of {ref, record} entries, or no array
NoArray == [array |-> FALSE, data |-> <<>>]
ApiEntries == {[ref |-> 0, has |-> TRUE, record |-> [v |-> 1]],
               [ref |-> 1, has |-> TRUE, record |-> [v |-> 2]],
               [ref |-> 1, has |-> FALSE, record |-> EmptyRec]}
ApiBodies == {NoArray} \cup [array : {TRUE}, data : [1..1 -> ApiEntries]]

\* inquire(ctx): lookup, the auth check, then db.query
inquire(ctx, recipeName, coll) ==
    LET recipe == lookup(recipeName)
    IN IF recipe = EmptyObj
       THEN [thrown |-> NoErr, queried |-> FALSE, modified |-> FALSE, coll |-> coll]
       ELSE IF truthy(recipe.auth) /\ ~ctxAuthorize(ctx, recipe.auth)
       THEN [thrown |-> Thrown401, queried |-> FALSE, modified |-> FALSE, coll |-> coll]
       ELSE [thrown |-> NoErr, queried |-> TRUE, modified |-> FALSE, coll |-> coll]

\* cache(ctx): lookup, the auth check, then db.modify when the body is an array
cache(ctx, recipeName, coll, body) ==
    LET recipe == lookup(recipeName)
    IN IF recipe = EmptyObj
       THEN [thrown |-> NoErr, queried |-> FALSE, modified |-> FALSE, coll |-> coll]
       ELSE IF truthy(recipe.auth) /\ ~ctxAuthorize(ctx, recipe.auth)
       THEN [thrown |-> Thrown401, queried |-> FALSE, modified |-> FALSE, coll |-> coll]
       ELSE IF ~body.array                      \* !verifyThat(data,'isArrayOfAnyObjects')
       THEN [thrown |-> NoErr, queried |-> FALSE, modified |-> FALSE, coll |-> coll]
       ELSE LET run == modifyLoop(recipe, body.data,
                                  [stores |-> <<coll>>, results |-> <<>>, changed |-> FALSE])
            IN [thrown |-> NoErr, queried |-> FALSE, modified |-> TRUE,
                coll |-> run.stores[Len(run.stores)]]

ApiInit ==
    /\ site = <<[id |-> 1, v |-> 1]>>
    /\ api = NoReq
    /\ apicalls = 0

\* apiCW, prefix '$': inquire for get (and head), cache for post, null otherwise
apiCW ==
    /\ apicalls < MaxApiCalls
    /\ apicalls' = apicalls + 1
    /\ \E ctx \in ApiContexts, method \in {"get", "head", "post", "put"},
          recipeName \in ApiRecipeNames, body \in ApiBodies :
         \E r \in {IF verbIs({"get"}, method) THEN inquire(ctx, recipeName, site)
                   ELSE IF verbIs({"post"}, method) THEN cache(ctx, recipeName, site, body)
                   ELSE [thrown |-> NoErr, queried |-> FALSE, modified |-> FALSE, coll |-> site]} :
           /\ Len(r.coll) <= MaxRecs
           /\ site' = r.coll
           /\ api' = [kind |-> "req", ctx |-> ctx, method |-> method, recipe |-> recipeName,
                      array |-> body.array, thrown |-> r.thrown,
                      queried |-> r.queried, modified |-> r.modified, before |-> site]

ApiNext == apiCW

\* the group names of a member value or of an auth list
C6_Groups(x) ==
    IF x.t = "absent" THEN {} ELSE {asList(x)[i] : i \in 1..Len(asList(x))} \ {""}

\* the caller of the last request is authenticated, and its groups meet the
\* auth list or include admin
C6_Permitted(auth) ==
    /\ api.ctx.authenticated # ""
    /\ \/ C6_Groups(api.ctx.user.member) \cap C6_Groups(auth) # {}
       \/ "admin" \in C6_Groups(api.ctx.user.member)

C6_Seen_Modified ==
    /\ api # NoReq /\ api.recipe = "staff" /\ api.method = "post" /\ api.modified
    /\ api.ctx.user.member = Str(<<"manager">>)
    /\ site # api.before

(***************************************************************************)
(* jxDB.query: what the caller gets, and what it shares with the store.    *)
(* JavaScript objects are references: a returned value that is an object   *)
(* of the store is the same object, and a change made through it is a      *)
(* change of the store.  A result carries its value and the set "shared"   *)
(* of store objects it holds by reference: "defaults" when the value is    *)
(* the recipe's defaults object, "header" when its first element is the    *)
(* recipe's header.                                                        *)
(***************************************************************************)
VARIABLES
    qdb,        \* SpecQuery: the store: one recipe and its collection, or NoCall
    qry         \* SpecQuery: the store as built, the bindings, the first result, the held result, the latest result

queryVars == <<qdb, qry>>

QArr(a) == [t |-> "arr", a |-> a]
QObj(n) == [t |-> "obj", o |-> [v |-> Num(n)]]
QThrown == [t |-> "thrown"]

isRef(v) == v.t \in {"arr", "obj"}

\* JSON.parse(JSON.stringify(obj)): the same JSON value in objects of its
\* own; members that are undefined are dropped from an object
RECURSIVE jxCopyValue(_)
jxCopyValue(v) ==
    IF v.t = "arr" THEN QArr([i \in 1..Len(v.a) |-> IF v.a[i].t = "absent" THEN JsNull ELSE jxCopyValue(v.a[i])])
    ELSE IF v.t = "obj"
    THEN [t |-> "obj", o |-> [k \in {j \in DOMAIN v.o : v.o[j].t # "absent"} |-> jxCopyValue(v.o[k])]]
    ELSE v

jxCopy(r) == [val |-> jxCopyValue(r.val), shared |-> {}]

\* a value handed on as it is: the same object
byReference(r) == r

\* jsonata(recipe.expression).evaluate(this.db(), bindings): the records of
\* the collection, the record the binding selects, nothing, or a throw for
\* an expression that does not parse.  What it finds are the store's objects.
evaluate(expression, store, bindings) ==
    CASE expression = "all" ->
            IF store.recs = <<>> THEN [val |-> Absent, shared |-> {}]
            ELSE [val |-> QArr(store.recs), shared |-> {"recs"}]
      [] expression = "byref" ->
            IF bindings \in 1..Len(store.recs) THEN [val |-> store.recs[bindings], shared |-> {"recs"}]
            ELSE [val |-> Absent, shared |-> {}]
      [] OTHER -> [val |-> QThrown, shared |-> {}]

\* tmp.slice(lmt) for lmt < 0, tmp.slice(0, lmt) for lmt > 0
slice(a, lmt) ==
    IF lmt < 0 THEN SubSeq(a, Len(a) + lmt + 1, Len(a)) ELSE SubSeq(a, 1, lmt)

abs(n) == IF n < 0 THEN -n ELSE n

\* jxDB.prototype.query for the recipe of the store
query(store, bindings) ==
    LET recipe == store.recipe
        dflt == IF recipe.defaults # Absent
                THEN [val |-> recipe.defaults,
                      shared |-> IF isRef(recipe.defaults) THEN {"defaults"} ELSE {}]
                ELSE [val |-> [t |-> "obj", o |-> EmptyRec], shared |-> {}]
    IN  IF recipe.expression = "" THEN dflt
        ELSE LET found == evaluate(recipe.expression, store, bindings)
             IN  IF found.val = QThrown THEN dflt
                 ELSE IF found.val = Absent THEN dflt
                 ELSE LET tmp == jxCopy(found)
                      IN  IF tmp.val.t = "arr"
                          THEN LET lmt == recipe.limit
                                   cut == IF lmt # 0 /\ Len(tmp.val.a) > abs(lmt)
                                          THEN slice(tmp.val.a, lmt) ELSE tmp.val.a
                               IN  IF isTruthy(recipe.header)
                                   THEN [val |-> QArr(<<recipe.header>> \o cut),
                                         shared |-> tmp.shared \cup
                                                    (IF isRef(recipe.header) THEN {"header"} ELSE {})]
                                   ELSE [val |-> QArr(cut), shared |-> tmp.shared]
                          ELSE tmp

\* the change a caller makes to an object it holds: a member set on an
\* object, an element pushed on an array
callerSets(v) ==
    IF v.t = "arr" THEN QArr(Append(v.a, Num(9)))
    ELSE [t |-> "obj", o |-> [k \in DOMAIN v.o \cup {"w"} |-> IF k = "w" THEN Num(9) ELSE v.o[k]]]

QueryDefaults == {Absent, Num(0), [t |-> "obj", o |-> EmptyRec], QObj(5)}
QueryHeaders == {Absent, QArr(<<Txt("s")>>)}
QueryExpressions == {"", "all", "byref", "bad"}
QueryLimits == {0, 1, -1}
QueryRecs == {<<>>, <<QObj(1)>>, <<QObj(1), QObj(2)>>}
QueryBindings == 1..2
MaxQueries == 3

QueryInit == qdb = NoCall /\ qry = NoCall

\* the store is built with its recipe and its collection
jxDBq ==
    /\ qdb = NoCall
    /\ \E defaults \in QueryDefaults, header \in QueryHeaders, expression \in QueryExpressions,
          limit \in QueryLimits, recs \in QueryRecs :
        qdb' = [kind |-> "db",
                recipe |-> [defaults |-> defaults, header |-> header,
                            expression |-> expression, limit |-> limit],
                recs |-> recs]
    /\ UNCHANGED qry

\* a caller queries the recipe; every later query uses the same bindings
queryCall ==
    /\ qdb # NoCall
    /\ \E bindings \in IF qry = NoCall THEN QueryBindings ELSE {qry.bindings} :
       \E r \in {query(qdb, bindings)} :
          qry' = IF qry = NoCall
                 THEN [kind |-> "call", db0 |-> qdb, bindings |-> bindings, first |-> r.val,
                       ret |-> r, again |-> Absent, n |-> 1, touched |-> FALSE]
                 ELSE [qry EXCEPT !.ret = r, !.again = r.val, !.n = @ + 1]
    /\ qry # NoCall => qry.n < MaxQueries
    /\ UNCHANGED qdb

\* the caller changes the value it was returned: the value itself, or its
\* first element.  An object shared with the store changes in the store too.
mutate ==
    /\ qry # NoCall
    /\ ~qry.touched
    /\ \E target \in {"value", "first"} :
        \/ /\ target = "value"
           /\ isRef(qry.ret.val)
           /\ qry' = [qry EXCEPT !.ret.val = callerSets(@), !.touched = TRUE]
           /\ qdb' = IF "defaults" \in qry.ret.shared
                     THEN [qdb EXCEPT !.recipe.defaults = callerSets(@)]
                     ELSE IF qry.ret.val.t = "obj" /\ "recs" \in qry.ret.shared
                     THEN [qdb EXCEPT !.recs[qry.bindings] = callerSets(@)]
                     ELSE qdb
        \/ /\ target = "first"
           /\ qry.ret.val.t = "arr"
           /\ qry.ret.val.a # <<>>
           /\ isRef(qry.ret.val.a[1])
           /\ qry' = [qry EXCEPT !.ret.val.a[1] = callerSets(@), !.touched = TRUE]
           /\ qdb' = IF "header" \in qry.ret.shared
                     THEN [qdb EXCEPT !.recipe.header = callerSets(@)]
                     ELSE IF "recs" \in qry.ret.shared
                     THEN [qdb EXCEPT !.recs[1] = callerSets(@)]
                     ELSE qdb

QueryNext == jxDBq \/ queryCall \/ mutate

\* C13 (as stated): a change made to the value a query returned changes
\* neither the store nor what a later query with the same recipe and
\* bindings returns.
C13_QueryDeepCopy ==
    qry # NoCall =>
        /\ qdb = qry.db0
        /\ qry.again # Absent => qry.again = qry.first

\* The part that holds: with a recipe whose defaults are no object and that
\* has no header, the store and later results are out of the caller's reach;
\* and the records of the collection are out of reach with every recipe.
C13_ExpressionResults ==
    qry # NoCall =>
        /\ qdb.recs = qry.db0.recs
        /\ (~isRef(qry.db0.recipe.defaults) /\ ~isRef(qry.db0.recipe.header)) =>
              /\ qdb = qry.db0
              /\ qry.again # Absent => qry.again = qry.first

(***************************************************************************)
(* jxDB persistence: the constructor's readOnly, changed, save and the     *)
(* file.  The file holds text: one row per record, a row being the set of  *)
(* "key": value pairs JSON.stringify writes; jxTo parses it back.          *)
(***************************************************************************)
VARIABLES
    pdef,       \* SpecPersist: def as given to the constructor, or NoCall before it
    pwriteable, \* SpecPersist: the constructor's private writeable
    pmem,       \* SpecPersist: privateDB[recipe.collection]
    pfile,      \* SpecPersist: the file: its text, and whether save has written it
    ptimex,     \* SpecPersist: this.timex is a pending timeout
    pwrite,     \* SpecPersist: the text fsp.writeFile is writing, or NoCall
    pstat       \* SpecPersist: modify calls made, whether one changed the store, watchInhibited

persistVars == <<pdef, pwriteable, pmem, pfile, ptimex, pwrite, pstat>>

MemoryFile == "_memory_"
MaxPersistCalls == 3

\* JSON.stringify(i) for a record: its "key": value pairs
stringifyRecord(record) == {<<k, record[k]>> : k \in DOMAIN record}

\* tabulate(db) for the collection: one row per record
tabulate(coll) == [kind |-> "text", rows |-> [i \in 1..Len(coll) |-> stringifyRecord(coll[i])]]

\* jxTo(source): JSON.parse of the text
jxTo(source) ==
    [i \in 1..Len(source.rows) |->
        [k \in {p[1] : p \in source.rows[i]} |-> (CHOOSE p \in source.rows[i] : p[1] = k)[2]]]

\* this.readOnly = (enable) => { if (enable!==undefined) writeable = !enable; return writeable; }
\* gives the new writeable, which is also what the call returns
readOnly(enable, writeable) == IF enable # "undefined" THEN enable # "true" ELSE writeable

PersistRecipe == [kind |-> "recipe", defaults |-> EmptyRec, reference |-> TRUE, unique |-> TRUE]
PersistFiles == {MemoryFile, "db.json"}
PersistReadOnly == {"undefined", "true", "false"}
PersistData ==
    {<<[ref |-> 0, has |-> TRUE, record |-> [v |-> 1]]>>,
     <<[ref |-> 1, has |-> TRUE, record |-> [v |-> 2]]>>,
     <<[ref |-> 1, has |-> FALSE, record |-> EmptyRec]>>,
     <<[ref |-> 2, has |-> FALSE, record |-> EmptyRec]>>}

PersistInit ==
    /\ pdef = NoCall
    /\ pwriteable = TRUE
    /\ pmem = <<>>
    /\ pfile = [text |-> tabulate(<<[id |-> 1, v |-> 1]>>), written |-> FALSE]
    /\ ptimex = FALSE
    /\ pwrite = NoCall
    /\ pstat = [calls |-> 0, changed |-> FALSE, watchInhibited |-> FALSE]

\* new jxDB(def): writeable starts true, this.readOnly(def.readOnly), and
\* a file-backed store reads its file
jxDBp ==
    /\ pdef = NoCall
    /\ \E file \in PersistFiles, ro \in PersistReadOnly :
        /\ pdef' = [kind |-> "def", file |-> file, readOnly |-> ro]
        /\ pwriteable' = readOnly(ro, TRUE)
        /\ pmem' = IF file # MemoryFile THEN jxTo(pfile.text) ELSE <<>>
    /\ UNCHANGED <<pfile, ptimex, pwrite, pstat>>

\* modify with one entry; a changing entry calls changed(), which clears and
\* sets the timeout
persistModify ==
    /\ pdef # NoCall
    /\ pstat.calls < MaxPersistCalls
    /\ \E data \in PersistData :
       \E run \in {modifyLoop(PersistRecipe, data,
                              [stores |-> <<pmem>>, results |-> <<>>, changed |-> FALSE])} :
          /\ Len(run.stores[Len(run.stores)]) <= MaxRecs
          /\ pmem' = run.stores[Len(run.stores)]
          /\ ptimex' = (ptimex \/ run.changed)
          /\ pstat' = [pstat EXCEPT !.calls = @ + 1, !.changed = @ \/ run.changed]
    /\ UNCHANGED <<pdef, pwriteable, pfile, pwrite>>

\* the timeout fires: save().  It returns at once for the memory store and
\* when this.readOnly() is true; else it inhibits the watcher and starts
\* fsp.writeFile with the text of the store as it is now.
persistSave ==
    /\ ptimex
    /\ ptimex' = FALSE
    /\ IF pdef.file = MemoryFile \/ readOnly("undefined", pwriteable)
       THEN UNCHANGED <<pwrite, pstat>>
       ELSE /\ pwrite' = tabulate(pmem)
            /\ pstat' = [pstat EXCEPT !.watchInhibited = TRUE]
    /\ UNCHANGED <<pdef, pwriteable, pmem, pfile>>

\* fsp.writeFile resolves: the file holds the text, the watcher is released
writeFile ==
    /\ pwrite # NoCall
    /\ pfile' = [text |-> pwrite, written |-> TRUE]
    /\ pwrite' = NoCall
    /\ pstat' = [pstat EXCEPT !.watchInhibited = FALSE]
    /\ UNCHANGED <<pdef, pwriteable, pmem, ptimex>>

PersistNext == jxDBp \/ persistModify \/ persistSave \/ writeFile

\* a file-backed store that modify has changed, with the timeout fired since
\* the last change and no write under way
C14_Settled ==
    /\ pdef # NoCall
    /\ pdef.file # MemoryFile
    /\ pstat.changed
    /\ ~ptimex
    /\ pwrite = NoCall

\* C14 (as stated): for a file-backed store, once the save delay has passed
\* after the last change, the file has been written and loading it gives
\* the tree that is in memory.
C14_PersistRoundTrip ==
    C14_Settled => (pfile.written /\ jxTo(pfile.text) = pmem)

\* The part that holds: a store built with readOnly: true is the one save
\* writes, and its file loads as the tree in memory.
C14_WrittenWhenReadOnly ==
    (C14_Settled /\ pdef.readOnly = "true") => (pfile.written /\ jxTo(pfile.text) = pmem)

\* save has written the file, or is writing it
C36_Written == pfile.written \/ pwrite # NoCall

\* C36: a store configured with the read-only flag set, and every store in
\* memory, is never written to a file whatever modify calls are made, and a
\* file-backed store without the flag is written by save.
C36_ReadOnlyStore ==
    IF pdef = NoCall THEN TRUE
    ELSE /\ (pdef.readOnly = "true" \/ pdef.file = MemoryFile) => ~C36_Written
         /\ (C14_Settled /\ pdef.readOnly # "true") => pfile.written

\* The part that holds: a store in memory is never written to a file.
C36_MemoryNeverWritten ==
    IF pdef = NoCall THEN TRUE
    ELSE pdef.file = MemoryFile => ~C36_Written

\* a store built with readOnly: true has been written to its file
C36_Seen_ReadOnlyWritten ==
    IF pdef = NoCall THEN FALSE
    ELSE pdef.readOnly = "true" /\ pfile.written

\* a file-backed store built without the flag was changed, its timeout has
\* fired, and the file is as it was
C36_Seen_NotSaved ==
    /\ C14_Settled
    /\ pdef.readOnly = "undefined"
    /\ ~pfile.written

\* a store in memory was changed and its timeout has fired
C36_Seen_Memory ==
    IF pdef = NoCall THEN FALSE
    ELSE pdef.file = MemoryFile /\ pstat.changed /\ ~ptimex

(***************************************************************************)
(* nativeware.login behind requestProcessor: a request to /login or        *)
(* /logout, with or without an Authorization header.  A header is          *)
(* authenticated first; what authenticate throws ends the request before   *)
(* the login middleware.  The login throttle is that of SpecAuth: here     *)
(* every request meets a logins table without failures.                    *)
(***************************************************************************)
VARIABLES
    lnow,       \* SpecLogin: the clock, in milliseconds
    ltok,       \* SpecLogin: the token the client got from its last successful login, or NoToken
    lres        \* SpecLogin: the last request and its response, or NoRes

loginVars == <<lnow, ltok, lres>>

MaxLoginMs == 90000         \* the login clock stops here
LoginTickMs == 30000        \* one step of the login clock

NoHeader == [method |-> "none"]
NoLogins == [k \in LoginKeys |-> [count |-> 0, mark |-> NoMark]]

\* what jwt.create reads of ctx.user: Object.assign({}, data, ..) and data.exp
tokenData(user) ==
    [username |-> user.username,
     note |-> IF "note" \in DOMAIN user THEN user.note ELSE 0,
     exp |-> IF "exp" \in DOMAIN user THEN user.exp ELSE 0]

\* a variant of renewalRefused in which renewal is never refused
renewalAllowed(ctx, renewal) == FALSE

\* ctx.authenticated=='bearer' && !jwt.cfg.renewal
renewalRefused(ctx, renewal) == ctx.authenticated = "bearer" /\ ~renewal

\* a variant of loginHeaders that sets nothing
loginHeadersNone(jwt) == {}

\* ctx.headers({authorization: `Bearer ${ctx.jwt}`})
loginHeaders(jwt) == {<<"authorization", [scheme |-> "Bearer ", token |-> jwt]>>}

\* loginMW(ctx): what it throws (NoErr: it returns), ctx.jwt, the response
\* headers it sets and the data it returns
loginMW(ctx, action, renewal, now) ==
    IF action = "logout"
    THEN [thrown |-> NoErr, jwt |-> NoToken, headers |-> {}, data |-> EmptyObj]
    ELSE IF ctx.authenticated = ""
    THEN [thrown |-> Thrown401, jwt |-> NoToken, headers |-> {}, data |-> Undefined]
    ELSE IF renewalRefused(ctx, renewal)
    THEN [thrown |-> E401("Token renewal requires login"), jwt |-> NoToken,
          headers |-> {}, data |-> Undefined]
    ELSE LET jwt == jwtCreateCfg(tokenData(ctx.user), NoSecret, 0, now, renewal)
         IN [thrown |-> NoErr, jwt |-> jwt, headers |-> loginHeaders(jwt),
             data |-> [kind |-> "login", token |-> jwt, payload |-> jwtExtract(jwt).payload]]

LoginInit ==
    /\ lnow = 0
    /\ ltok = NoToken
    /\ lres = NoRes

\* one request: requestProcessor authenticates a header, then the route of
\* /:action(login|logout) runs loginMW
loginRequest ==
    /\ \E header \in Headers \cup {NoHeader}
                     \cup (IF ltok = NoToken THEN {} ELSE {[method |-> "bearer", token |-> ltok]}),
          action \in {"login", "logout"}, renewal \in BOOLEAN :
       \E a \in {IF header = NoHeader
                 THEN [thrown |-> NoErr, ctx |-> NoCtx]
                 ELSE authenticate(header, NoLogins, lnow)} :
          IF a.thrown # NoErr
          THEN /\ lres' = [kind |-> "res", action |-> action, method |-> header.method,
                           renewal |-> renewal, at |-> lnow, reached |-> FALSE,
                           ctx |-> a.ctx, thrown |-> a.thrown, jwt |-> NoToken,
                           headers |-> {}, data |-> Undefined]
               /\ UNCHANGED ltok
          ELSE \E r \in {loginMW(a.ctx, action, renewal, lnow)} :
               /\ lres' = [kind |-> "res", action |-> action, method |-> header.method,
                           renewal |-> renewal, at |-> lnow, reached |-> TRUE,
                           ctx |-> a.ctx, thrown |-> r.thrown, jwt |-> r.jwt,
                           headers |-> r.headers, data |-> r.data]
               /\ ltok' = IF r.jwt # NoToken THEN r.jwt ELSE ltok
    /\ UNCHANGED lnow

\* time passes
loginTick ==
    /\ lnow + LoginTickMs <= MaxLoginMs
    /\ lnow' = lnow + LoginTickMs
    /\ UNCHANGED <<ltok, lres>>

LoginNext == loginRequest \/ loginTick

C16_Seen_Logout == ~(lres # NoRes /\ lres.reached /\ lres.action = "logout" /\ lres.ctx.authenticated = "")
C16_Seen_Unauthenticated == ~(lres # NoRes /\ lres.reached /\ lres.action = "login" /\ lres.thrown = Thrown401)

(***************************************************************************)
(* Account activation: GET /user/code/<user> stores a new activation code, *)
(* POST /user/code/<user>/<code> checks a code and activates.              *)
(***************************************************************************)
VARIABLES
    cusers,     \* SpecActivate: the users collection as loaded, or NoCall before
    cnow,       \* SpecActivate: the clock, in milliseconds
    cres        \* SpecActivate: the last POST /user/code: the request, the record before and after

activateVars == <<cusers, cnow, cres>>

MaxCodeMs == 800000         \* the activation clock stops here
CodeTickMs == 400000        \* one step of the activation clock
ActivationExpiration == 10  \* auth.cfg.activation.expiration, minutes

NoPasscode == [code |-> "", iat |-> 0, exp |-> 0]
EmptyPasscode == EmptyRec

\* auth.genCode: {code: uniqueID(size,base), iat: now/1000|0, exp: exp*60}
genCode(code, exp, now) == [code |-> code, iat |-> now \div 1000, exp |-> exp * 60]

\* the records the users file can hold for Alice: a status, and credentials
\* with no passcode, with {} as passcode, or with a code
CodeStatuses == {"PENDING", "ACTIVE", "INACTIVE"}
CodePasscodes == {NoPasscode, EmptyPasscode, genCode("777", ActivationExpiration, 0)}
CodeChallenges == {NoCode, "777", "123456", "bad"}

\* accountMW, POST code, for a user that exists: the record chgUser stores
postCode(who, opt, now) ==
    IF checkCode(opt, who.credentials.passcode, now) /\ who.status = "PENDING"
    THEN [who EXCEPT !.status = "ACTIVE"]
    ELSE who

ActivateInit ==
    /\ cusers = NoCall
    /\ cnow = 0
    /\ cres = NoRes

\* new jxDB for the users database: the file is read
jxDBusers ==
    /\ cusers = NoCall
    /\ \E status \in CodeStatuses, passcode \in CodePasscodes :
         cusers' = [kind |-> "users",
                    alice |-> [username |-> Alice, status |-> status,
                               credentials |-> [passcode |-> passcode]]]
    /\ UNCHANGED <<cnow, cres>>

\* GET /user/code/<user>: a new activation code is stored for the user
getCode ==
    /\ cusers # NoCall
    /\ cusers' = [cusers EXCEPT !.alice.credentials.passcode =
                                   genCode("123456", ActivationExpiration, cnow)]
    /\ UNCHANGED <<cnow, cres>>

\* POST /user/code/<user>/<code>; an unknown user is answered 400
postCodeRequest ==
    /\ cusers # NoCall
    /\ \E user \in {Alice, AliceUpper, Zed}, opt \in CodeChallenges :
         IF toLowerCase(user) = Alice
         THEN \E who \in {postCode(cusers.alice, opt, cnow)} :
                /\ cusers' = [cusers EXCEPT !.alice = who]
                /\ cres' = [kind |-> "post", user |-> user, opt |-> opt, at |-> cnow,
                            thrown |-> NoErr, before |-> cusers.alice, after |-> who]
         ELSE /\ cres' = [kind |-> "post", user |-> user, opt |-> opt, at |-> cnow,
                          thrown |-> [kind |-> "bare", val |-> 400],
                          before |-> cusers.alice, after |-> cusers.alice]
              /\ UNCHANGED cusers
    /\ UNCHANGED cnow

\* time passes
codeTick ==
    /\ cnow + CodeTickMs <= MaxCodeMs
    /\ cnow' = cnow + CodeTickMs
    /\ UNCHANGED <<cusers, cres>>

ActivateNext == jxDBusers \/ getCode \/ postCodeRequest \/ codeTick

\* the request supplied the code that was stored, and that code had not expired
C17_CodeMatches ==
    LET passcode == cres.before.credentials.passcode
    IN /\ cres.opt # NoCode
       /\ DOMAIN passcode # {}
       /\ passcode.code # ""
       /\ passcode.code = cres.opt
       /\ cres.at <= (passcode.iat + passcode.exp) * 1000

\* C17 (as stated): POST /user/code/<user>/<code> takes a status from
\* PENDING to ACTIVE only when the code supplied equals the code stored and
\* that code has not expired; in every other case the stored status is as
\* it was.
C17_ActivationNeedsCode ==
    cres # NoRes =>
        (cres.after.status # cres.before.status =>
            /\ cres.before.status = "PENDING" /\ cres.after.status = "ACTIVE"
            /\ C17_CodeMatches)

\* The part that holds: for a user whose stored passcode is not {}, the
\* status changes exactly when it was PENDING and the code matches, and
\* then to ACTIVE
C17_StoredCode ==
    (cres # NoRes /\ DOMAIN cres.before.credentials.passcode # {}) =>
        IF cres.before.status = "PENDING" /\ C17_CodeMatches /\ cres.thrown = NoErr
        THEN cres.after.status = "ACTIVE"
        ELSE cres.after.status = cres.before.status

(***************************************************************************)
(* nativeware.content, GET: one file under the root, its cache entry, and  *)
(* the conditional request headers.  Times are in milliseconds; an HTTP    *)
(* date carries whole seconds.  hmac is idealised as injective: a tag is   *)
(* the triple it is computed from, and a tag lies within an entity tag of  *)
(* a request exactly when that entity tag was built from it.               *)
(***************************************************************************)
VARIABLES
    cfile,      \* SpecContent: the file's stats: mtime and size
    theCache,   \* SpecContent: the cache entry of the file, or NoCall when there is none
    gres        \* SpecContent: the last GET: the request, the file, the cache before, the response

contentVars == <<cfile, theCache, gres>>

MaxMtimeMs == 1500          \* the file is not modified after this time
MtimeStepMs == 500          \* a modification moves mtime on by this much
NoSince == -1               \* no If-Modified-Since header
InvalidDate == -2           \* an If-Modified-Since that is no date

\* new Date(def.time).style('http'): the date to the second
styleHttp(time) == (time \div 1000) * 1000

\* new FileEntry(fileSpec, {url, size, time})
FileEntry(spec, size, time) ==
    [spec |-> spec, size |-> size, time |-> styleHttp(time),
     tag |-> <<spec, size, styleHttp(time)>>, loaded |-> FALSE]

\* an entity tag of a request: '"tag"', '"tag-gz"' or the weak W/"tag"
ETag(tag, suffix) == [tag |-> tag, suffix |-> suffix]

\* a variant of hasTagMatch that takes the plain entity tag only
hasTagMatchPlain(fe, tags) ==
    \E i \in 1..Len(tags) : tags[i].tag = fe.tag /\ tags[i].suffix = ""

\* FileEntry.hasTagMatch: tags.split(',').map(t=>t.trim()).filter(t=>t.includes(this.tag))[0]
hasTagMatch(fe, tags) == \E i \in 1..Len(tags) : tags[i].tag = fe.tag

\* FileEntry.matches: this.etag() == entry.etag()
matches(this, fe) == this.tag = fe.tag

\* since && (new Date(since) >= new Date(newEntry.modified))
notModifiedSince(since, fe) ==
    since # NoSince /\ since # InvalidDate /\ since >= fe.time

\* errorHandler without a redirect on a new response, and processResponse
\* for returned file contents
answer(r) ==
    IF r.thrown # NoErr
    THEN LET ex == httpStatusMsg(r.thrown)
         IN end(IF ex.code < 400 THEN writeHead(newResponse(FALSE), ex.code, ex.msg, FALSE)
                ELSE writeJSON(newResponse(FALSE), ex))
    ELSE IF r.data = Undefined THEN NoRes       \* ctx.next(): left to the next route
    ELSE end([newResponse(FALSE) EXCEPT !.body = <<<<"file", r.data>>>>, !.headersSent = TRUE])

\* contentMW for a GET: what it throws, the data it returns and the cache after
contentMW(pathname, authorized, since, etags, file, oldEntry) ==
    IF ~authorized THEN [thrown |-> [kind |-> "bare", val |-> 401], data |-> Undefined, cache |-> oldEntry]
    ELSE IF pathname = "/none" THEN [thrown |-> NoErr, data |-> Undefined, cache |-> oldEntry]
    ELSE IF pathname = "/dir" THEN [thrown |-> [kind |-> "bare", val |-> 403], data |-> Undefined, cache |-> oldEntry]
    ELSE LET newEntry == FileEntry(pathname, file.size, file.mtime)
             inCache == oldEntry # NoCall /\ matches(oldEntry, newEntry)
         IN IF notModifiedSince(since, newEntry)
            THEN [thrown |-> [kind |-> "bare", val |-> 304], data |-> Undefined, cache |-> oldEntry]
            ELSE IF etags # <<>> /\ hasTagMatch(newEntry, etags)
            THEN [thrown |-> [kind |-> "bare", val |-> 304], data |-> Undefined, cache |-> oldEntry]
            ELSE IF ~inCache
            THEN [thrown |-> NoErr, data |-> newEntry.tag,
                  cache |-> [newEntry EXCEPT !.loaded = TRUE]]
            ELSE [thrown |-> NoErr, data |-> oldEntry.tag, cache |-> oldEntry]

\* the entity tags a client can hold for the file, and the lists it sends
ContentTags ==
    {ETag(FileEntry("/a.txt", 10, t).tag, s) : t \in {0, 1000}, s \in {"", "-gz"}}
ContentTagLists == {<<>>} \cup {<<e>> : e \in ContentTags}
                   \cup {<<ETag(FileEntry("/a.txt", 10, 0).tag, ""), e>> : e \in ContentTags}
ContentSince == {NoSince, InvalidDate, 0, 1000, 2000}

ContentInit ==
    /\ cfile = [mtime |-> 0, size |-> 10]
    /\ theCache = NoCall
    /\ gres = NoRes

\* a GET for a path under the root
contentGet ==
    /\ \E pathname \in {"/a.txt", "/none", "/dir"}, authorized \in BOOLEAN,
          since \in ContentSince, etags \in ContentTagLists :
       \E r \in {contentMW(pathname, authorized, since, etags, cfile, theCache)} :
          /\ theCache' = r.cache
          /\ gres' = [kind |-> "get", pathname |-> pathname, authorized |-> authorized,
                      since |-> since, etags |-> etags, file |-> cfile,
                      cache |-> theCache, thrown |-> r.thrown, res |-> answer(r)]
    /\ UNCHANGED cfile

\* the file is written: its mtime moves on
touch ==
    /\ cfile.mtime + MtimeStepMs <= MaxMtimeMs
    /\ cfile' = [cfile EXCEPT !.mtime = @ + MtimeStepMs]
    /\ UNCHANGED <<theCache, gres>>

ContentNext == contentGet \/ touch

\* the request is a permitted GET for the file, and its If-Modified-Since is
\* not earlier than the file's mtime or its If-None-Match lists the tag of
\* the file as it is, plain or with -gz
C20_Conditional ==
    /\ gres # NoRes /\ gres.pathname = "/a.txt" /\ gres.authorized
    /\ \/ (gres.since # NoSince /\ gres.since # InvalidDate /\ gres.since >= gres.file.mtime)
       \/ \E i \in 1..Len(gres.etags) :
            /\ gres.etags[i].tag = FileEntry("/a.txt", gres.file.size, gres.file.mtime).tag
            /\ gres.etags[i].suffix \in {"", "-gz"}

\* C20: such a request is answered 304 without a body, and the file is not
\* loaded into the cache by it.
C20_NotModified ==
    C20_Conditional =>
        /\ gres.res # NoRes
        /\ gres.res.statusCode = 304
        /\ gres.res.body = <<>>
        /\ gres.res.ended
        /\ theCache = gres.cache

\* C20 witness: the file was modified after it was cached, and a request
\* that lists the -gz tag of the file as it is now, with a date that is too
\* early, is answered 304 with the cache left as it was
C20_Witness ==
    /\ C20_Conditional
    /\ gres.cache # NoCall /\ gres.cache.loaded
    /\ gres.cache.tag # FileEntry("/a.txt", gres.file.size, gres.file.mtime).tag
    /\ gres.since # NoSince /\ gres.since # InvalidDate /\ gres.since < gres.file.mtime
    /\ \A i \in 1..Len(gres.etags) : gres.etags[i].suffix = "-gz"
    /\ gres.res.statusCode = 304
    /\ theCache = gres.cache

\* the other case of C20 is reached: 304 by the date alone, nothing cached
C20_Seen_Since ==
    ~(C20_Conditional /\ gres.etags = <<>> /\ gres.cache = NoCall /\ gres.res.statusCode = 304)

(***************************************************************************)
(* nativeware.content, GET, as the steps of concurrent requests: the stat  *)
(* of the file, the read of its contents and the entry added to the cache  *)
(* are separated by awaits, and the file changes in between.  The contents *)
(* of the file are named by the time they were written.                    *)
(***************************************************************************)
VARIABLES
    kfile,      \* SpecCache: the file's stats: mtime and size
    kheap,      \* SpecCache: the FileEntry object made by each request, NoCall before it is made
    kcache,     \* SpecCache: theCache.cache[fileSpec]: the request whose entry it holds, 0 for none
    kreq        \* SpecCache: each request: where it stands, the stats it saw, what it sent

cacheVars == <<kfile, kheap, kcache, kreq>>

MaxGets == 3                \* the GET requests, which may overlap
MaxChangeMs == 1500         \* the file is not changed after this time
ChangeStepMs == 500         \* a change moves mtime on by this much
NotRead == -1               \* contents.raw of an entry before load

Gets == 1..MaxGets

\* new FileEntry(fileSpec, {url, size: stats.size, time: stats.mtime}) with
\* its contents, and the stats it was made from
newEntry(stats) ==
    [entry |-> FileEntry("/a.txt", stats.size, stats.mtime), stats |-> stats, raw |-> NotRead]

\* Cache.getEntry followed by oldEntry && oldEntry.matches(newEntry)
inCache(heap, held, made) == held # 0 /\ matches(heap[held].entry, made.entry)

\* FileEntry.load(store, compress) for a stored entry: contents.raw = await fsp.readFile(this.spec)
load(made, file) == [made EXCEPT !.raw = file.mtime, !.entry.loaded = TRUE]

\* FileEntry.content for an entry held in memory: the tag and the contents sent
content(made) == [tag |-> made.entry.tag, raw |-> made.raw]

IdleReq == [pc |-> "idle", stats |-> NoCall, kept |-> FALSE, sent |-> NoRes]

CacheInit ==
    /\ kfile = [mtime |-> 0, size |-> 10]
    /\ kheap = [r \in Gets |-> NoCall]
    /\ kcache = 0
    /\ kreq = [r \in Gets |-> IdleReq]

\* safeStat resolves; the request makes its entry, looks into the cache and
\* answers from the entry held there when it matches
cacheStat(r) ==
    /\ kreq[r].pc = "idle"
    /\ LET made == newEntry(kfile)
       IN IF inCache(kheap, kcache, made)
          THEN /\ kreq' = [kreq EXCEPT ![r] = [pc |-> "done", stats |-> kfile, kept |-> TRUE,
                                               sent |-> [kind |-> "data", from |-> kcache,
                                                         data |-> content(kheap[kcache])]]]
               /\ kheap' = [kheap EXCEPT ![r] = made]
          ELSE /\ kreq' = [kreq EXCEPT ![r] = [pc |-> "load", stats |-> kfile, kept |-> FALSE,
                                               sent |-> NoRes]]
               /\ kheap' = [kheap EXCEPT ![r] = made]
    /\ UNCHANGED <<kfile, kcache>>

\* readFile resolves inside newEntry.load
cacheRead(r) ==
    /\ kreq[r].pc = "load"
    /\ kheap' = [kheap EXCEPT ![r] = load(@, kfile)]
    /\ kreq' = [kreq EXCEPT ![r].pc = "add"]
    /\ UNCHANGED <<kfile, kcache>>

\* load has resolved: theCache.addEntry(newEntry); oldEntry = newEntry; return its content
cacheAdd(r) ==
    /\ kreq[r].pc = "add"
    /\ kcache' = r
    /\ kreq' = [kreq EXCEPT ![r].pc = "done",
                            ![r].sent = [kind |-> "data", from |-> r, data |-> content(kheap[r])]]
    /\ UNCHANGED <<kfile, kheap>>

\* the file is written, with the same or another size
fileChange ==
    /\ kfile.mtime + ChangeStepMs <= MaxChangeMs
    /\ \E size \in {10, 11} :
          kfile' = [mtime |-> kfile.mtime + ChangeStepMs, size |-> size]
    /\ UNCHANGED <<kheap, kcache, kreq>>

CacheNext ==
    \/ \E r \in Gets : cacheStat(r)
    \/ \E r \in Gets : cacheRead(r)
    \/ \E r \in Gets : cacheAdd(r)
    \/ fileChange

\* the entries that were added to the cache
published(r) == kreq[r].pc = "done" /\ ~kreq[r].kept

\* C21: a request that saw a size or an mtime other than those the entry in
\* the cache was made from did not answer from that entry, and every answer
\* carries the tag of the stats its request saw.
C21_CacheFreshness ==
    \A r \in Gets :
        kreq[r].pc = "done" =>
            /\ kreq[r].kept => kheap[kreq[r].sent.from].stats = kreq[r].stats
            /\ kreq[r].sent.data.tag =
                   FileEntry("/a.txt", kreq[r].stats.size, kreq[r].stats.mtime).tag

\* what holds of C21: the same with mtime taken to the second
C21_FreshToTheSecond ==
    \A r \in Gets :
        kreq[r].pc = "done" =>
            /\ kreq[r].kept =>
                 /\ kheap[kreq[r].sent.from].stats.size = kreq[r].stats.size
                 /\ styleHttp(kheap[kreq[r].sent.from].stats.mtime) = styleHttp(kreq[r].stats.mtime)
            /\ kreq[r].sent.data.tag =
                   FileEntry("/a.txt", kreq[r].stats.size, kreq[r].stats.mtime).tag

\* what holds of C21: an entry that was added to the cache is not changed
C21_PublishedImmutable ==
    [][\A r \in Gets : published(r) => kheap'[r] = kheap[r]]_cacheVars

\* a request answered from the cache with contents that are not the file's:
\* the file was written again within the second, with the same size
C21_Seen_Stale ==
    ~(\E r \in Gets : /\ kreq[r].pc = "done" /\ kreq[r].kept
                      /\ kreq[r].sent.data.raw # kreq[r].stats.mtime
                      /\ kheap[kreq[r].sent.from].stats.mtime = kreq[r].sent.data.raw)

(***************************************************************************)
(* helpers.resolveSafePath on POSIX paths.  A path is a sequence of        *)
(* characters; path.join and path.resolve are computed on its segments,    *)
(* with .. stepping up as node's path module does.                         *)
(***************************************************************************)
VARIABLES
    pth         \* SpecPath: the last resolveSafePath call: the arguments and the result

pathVars == <<pth>>

MaxPartLen == 4             \* the longest further path part
MaxParts == 2               \* the number of further path parts

PathChars == {".", "/", "a"}
Cwd == <<<<"h">>, <<"p">>>>         \* process.cwd(): /h/p

\* a variant of replaceDots that leaves the part as it is
keepDots(a) == a

RECURSIVE replaceDots(_)
\* a.replace(/\.\./g, ''): every pair of dots met from the left is taken out
replaceDots(a) ==
    IF Len(a) = 0 THEN <<>>
    ELSE IF Len(a) >= 2 /\ a[1] = "." /\ a[2] = "." THEN replaceDots(SubSeq(a, 3, Len(a)))
    ELSE <<a[1]>> \o replaceDots(Tail(a))

RECURSIVE pathJoin(_)
\* path.join before it normalises: the parts that are not empty, with / between
pathJoin(parts) ==
    IF Len(parts) = 0 THEN <<>>
    ELSE IF Len(parts[1]) = 0 THEN pathJoin(Tail(parts))
    ELSE LET rest == pathJoin(Tail(parts))
         IN IF Len(rest) = 0 THEN parts[1] ELSE parts[1] \o <<"/">> \o rest

RECURSIVE walk(_, _)
\* the segments of a path taken one by one from a directory: . and the empty
\* segment stay, .. steps up, and there is nothing above /
walk(dir, segments) ==
    IF Len(segments) = 0 THEN dir
    ELSE LET seg == segments[1]
         IN IF seg = <<>> \/ seg = <<".">> THEN walk(dir, Tail(segments))
            ELSE IF seg = <<".", ".">>
            THEN walk(IF Len(dir) = 0 THEN dir ELSE SubSeq(dir, 1, Len(dir) - 1), Tail(segments))
            ELSE walk(dir \o <<seg>>, Tail(segments))

\* path.resolve(p): the segments of the absolute path, from the working
\* directory when p is relative
pathResolve(p) ==
    walk(IF Len(p) > 0 /\ p[1] = "/" THEN <<>> ELSE Cwd, split(p, "/"))

\* helpers.resolveSafePath(root, ...args)
resolveSafePath(root, args) ==
    pathResolve(pathJoin(<<root>> \o
        [i \in 1..Len(SelectSeq(args, LAMBDA a : Len(a) > 0)) |->
            replaceDots(SelectSeq(args, LAMBDA a : Len(a) > 0)[i])]))

\* path q is path p or lies below it
isUnder(q, p) == Len(q) >= Len(p) /\ SubSeq(q, 1, Len(p)) = p

RECURSIVE Strings(_)
\* the paths of up to n characters
Strings(n) ==
    IF n = 0 THEN {<<>>}
    ELSE LET S == Strings(n - 1)
         IN S \cup {s \o <<c>> : s \in {t \in S : Len(t) = n - 1}, c \in PathChars}

PathParts == Strings(MaxPartLen)
PathArgs == UNION {[1..n -> PathParts] : n \in 0..MaxParts}
PathRoots == {<<"/", "s", "/", "w">>, <<".", ".", "/", "w">>, <<"/", "s", "/", "w", "/", ".", ".">>,
              <<"w", "/">>}

PathInit == pth = NoCall

\* resolveSafePath(root, ...args)
resolveCall ==
    /\ pth = NoCall
    /\ \E root \in PathRoots, args \in PathArgs :
          pth' = [kind |-> "call", root |-> root, args |-> args,
                  path |-> resolveSafePath(root, args)]

PathNext == resolveCall

\* C23: what resolveSafePath returns is the root or lies below it.
C23_PathSafety ==
    pth # NoCall => isUnder(pth.path, pathResolve(pth.root))

\* C23 witness: parts that hold .., runs of dots and separators, and that
\* would lead above the root as they are, resolve to a path below the root
C23_Witness ==
    /\ pth # NoCall /\ Len(pth.args) = 2
    /\ pth.args[1] = <<".", ".", "/", ".">> /\ pth.args[2] = <<".", ".", ".", "/">>
    /\ ~isUnder(pathResolve(pathJoin(<<pth.root>> \o pth.args)), pathResolve(pth.root))
    /\ isUnder(pth.path, pathResolve(pth.root))

(***************************************************************************)
(* nativeware.content, GET, from the load of the entry to the response:    *)
(* FileEntry.load, FileEntry.content and the ResponseContext branch of     *)
(* processResponse.  Contents are named by their encoding and byte length. *)
(***************************************************************************)
VARIABLES
    zfile,      \* SpecGzip: the file: its extension and size, NoCall before it is chosen
    zcache,     \* SpecGzip: theCache.cache[fileSpec], NoCall for none
    zres        \* SpecGzip: the last GET: the request and the response

gzipVars == <<zfile, zcache, zres>>

CacheMax == 102400          \* asBytes(options.max || '100K')
MaxGzipGets == 3            \* the GET requests of a behaviour

CompressTypes == {"css", "csv", "html", "htm", "js", "json", "pdf", "txt"}

\* zlib's output for n bytes: other bytes, of another length
gzipLength(n) == n \div 2 + 20

\* the buffer readFile gives, and the buffer zlib.gzip makes of it
rawBuffer(n) == [kind |-> "buffer", encoding |-> "raw", byteLength |-> n]
zipBuffer(n) == [kind |-> "buffer", encoding |-> "gzip", byteLength |-> gzipLength(n)]

\* (ctx.request.HEADERS['accept-encoding'] || '').includes('gzip')
acceptsGzip(acceptEncoding) == \E i \in 1..Len(acceptEncoding) : acceptEncoding[i] = "gzip"

\* FileEntry.load(store, compress)
loadContents(size, store, compress) ==
    [raw |-> IF store THEN rawBuffer(size) ELSE Undefined,
     gzip |-> IF store /\ compress THEN zipBuffer(size) ELSE Undefined]

\* FileEntry.content, streaming: the stream is piped through zlib when compressed
streamCompressed(compressed) == compressed

\* FileEntry.content(compressed)
entryContent(fe, compressed) ==
    IF fe.contents.raw = Undefined
    THEN [compressed |-> compressed, streaming |-> TRUE,
          encoding |-> IF streamCompressed(compressed) THEN "gzip" ELSE "none",
          etag |-> IF streamCompressed(compressed) THEN "tag-gz" ELSE "none",
          length |-> -1,
          contents |-> IF streamCompressed(compressed)
                       THEN [kind |-> "stream", encoding |-> "gzip", byteLength |-> gzipLength(fe.size)]
                       ELSE [kind |-> "stream", encoding |-> "raw", byteLength |-> fe.size]]
    ELSE IF compressed /\ fe.contents.gzip # Undefined
    THEN [compressed |-> TRUE, streaming |-> FALSE, encoding |-> "gzip", etag |-> "tag-gz",
          length |-> fe.contents.gzip.byteLength, contents |-> fe.contents.gzip]
    ELSE [compressed |-> FALSE, streaming |-> FALSE, encoding |-> "none", etag |-> "tag",
          length |-> fe.contents.raw.byteLength, contents |-> fe.contents.raw]

\* contentMW (GET) from the cache lookup on, for a request without
\* conditional headers: the entry served and the data returned
serveFile(file, held, acceptEncoding) ==
    LET made == [ext |-> file.ext, size |-> file.size, contents |-> [raw |-> Undefined, gzip |-> Undefined]]
        hit == held # NoCall /\ held.ext = made.ext /\ held.size = made.size
        served == IF hit THEN held
                  ELSE [made EXCEPT !.contents =
                            loadContents(made.size, made.size < CacheMax, made.ext \in CompressTypes)]
    IN [entry |-> served, data |-> entryContent(served, acceptsGzip(acceptEncoding))]

GzipExts == {"html", "png"}
GzipSizes == {0, 10, CacheMax, 200000}
GzipAccepts == {<<>>, <<"gzip">>, <<"deflate", "gzip", "br">>, <<"br">>}

GzipInit ==
    /\ zfile = NoCall
    /\ zcache = NoCall
    /\ zres = [kind |-> "none", gets |-> 0]

\* the file under the root, or the file written with another size
gzipFile ==
    /\ \E ext \in GzipExts, size \in GzipSizes :
          /\ IF zfile = NoCall THEN TRUE ELSE zfile.ext = ext /\ zfile.size # size
          /\ zfile' = [kind |-> "file", ext |-> ext, size |-> size]
    /\ UNCHANGED <<zcache, zres>>

\* a GET of the file, and processResponse for the ResponseContext returned
gzipGet ==
    /\ zfile # NoCall
    /\ zres.gets < MaxGzipGets
    /\ \E acceptEncoding \in GzipAccepts :
       \E r \in {serveFile(zfile, zcache, acceptEncoding)} :
          /\ zcache' = r.entry
          /\ zres' = [kind |-> "get", gets |-> zres.gets + 1,
                      accepts |-> acceptsGzip(acceptEncoding), ext |-> zfile.ext,
                      inMemory |-> r.entry.contents.raw # Undefined,
                      streaming |-> r.data.streaming,
                      encoding |-> r.data.encoding, length |-> r.data.length,
                      body |-> r.data.contents]
    /\ UNCHANGED zfile

GzipNext == gzipFile \/ gzipGet

\* C22: the response says gzip exactly when the client accepts gzip, the
\* extension is compressible and the entry is held in memory, and a
\* buffered response gives the byte length of what it sends.
C22_GzipOptionality ==
    zres.kind = "get" =>
        /\ zres.encoding = "gzip" <=>
               (zres.accepts /\ zres.ext \in CompressTypes /\ zres.inMemory)
        /\ ~zres.streaming => zres.length = zres.body.byteLength

\* what holds of C22: the same for the entries held in memory, and a
\* streamed file says gzip exactly when the client accepts it, whatever the
\* extension
C22_GzipBuffered ==
    zres.kind = "get" =>
        /\ zres.inMemory =>
             /\ zres.encoding = "gzip" <=> (zres.accepts /\ zres.ext \in CompressTypes)
             /\ (zres.encoding = "gzip") = (zres.body.encoding = "gzip")
             /\ ~zres.streaming /\ zres.length = zres.body.byteLength
        /\ ~zres.inMemory =>
             /\ zres.streaming
             /\ zres.encoding = "gzip" <=> zres.accepts

\* a streamed file of an extension that is not compressible sent with gzip
C22_Seen_StreamedGzip ==
    ~(zres.kind = "get" /\ zres.streaming /\ zres.ext = "png" /\ zres.encoding = "gzip")

(***************************************************************************)
(* serverware's body parsers.  A body is what the data events carry: the   *)
(* lengths of the chunks for text, urlencoded and octet bodies, the parts  *)
(* of a multipart body with the portions each file arrives in, and for a   *)
(* JSON body the text before its last quote, the text from it on, and a    *)
(* data URL with its decoded size.  The temp directory holds the files     *)
(* the write streams created there.                                        *)
(***************************************************************************)
VARIABLES
    btemp,      \* SpecBody: the files in the temp directory: the request, bytes written, ended
    bres        \* SpecBody: the last request: what came, and how bodyParse ended

bodyVars == <<btemp, bres>>

RequestMax == 8             \* options.limits.request, scaled down
UploadMax == 6              \* options.limits.upload, scaled down
MaxBodyRequests == 2        \* the requests of a behaviour
FileRecordLength == 1       \* the length of a file's record in the JSON text, scaled down

Resolved == [code |-> 0]
Overflow413 == [code |-> 413]

RECURSIVE total(_)
\* the sum of the lengths in a sequence
total(s) == IF Len(s) = 0 THEN 0 ELSE s[1] + total(Tail(s))

RECURSIVE keepWhile(_, _, _)
\* req.on('data') of bodyParseText and bodyParseUrlEnc: a chunk is added
\* when raw.length+chunk.length<limit, and left out otherwise
keepWhile(raw, chunks, limit) ==
    IF Len(chunks) = 0 THEN raw
    ELSE keepWhile(IF raw + chunks[1] < limit THEN raw + chunks[1] ELSE raw, Tail(chunks), limit)

\* bodyParseText, and bodyParseUrlEnc up to qs.parse
bodyParseText(chunks, limits) ==
    [end |-> Resolved, body |-> keepWhile(0, chunks, limits.request), files |-> <<>>]

RECURSIVE writeWhile(_, _, _)
\* req.on('data') of bodyParseOctet: a chunk is written whole while limit>size
writeWhile(size, chunks, limit) ==
    IF Len(chunks) = 0 THEN size
    ELSE writeWhile(IF limit > size THEN size + chunks[1] ELSE size, Tail(chunks), limit)

\* bodyParseOctet: the write stream is created first and closed at the end
bodyParseOctet(chunks, limits) ==
    [end |-> Resolved, body |-> writeWhile(0, chunks, limits.upload),
     files |-> <<[written |-> writeWhile(0, chunks, limits.upload), ended |-> TRUE]>>]

\* overflow(): jxFromCircular(parts).length>max, with the fields and the
\* file records counted
overflow(props, files, max) == props + FileRecordLength * Len(files) > max

RECURSIVE streamPortions(_, _, _)
\* bodyParseFormData, streaming mode: each portion is counted, tested
\* against upload and written; dest.end() follows the last one
streamPortions(file, portions, upload) ==
    IF Len(portions) = 0 THEN [end |-> Resolved, file |-> [file EXCEPT !.ended = TRUE]]
    ELSE IF file.size + portions[1] > upload
    THEN [end |-> Overflow413, file |-> [file EXCEPT !.size = @ + portions[1]]]
    ELSE streamPortions([file EXCEPT !.size = @ + portions[1], !.written = @ + portions[1]],
                        Tail(portions), upload)

\* terminate(e) with an error: dest.writeable is undefined on a write
\* stream, so dest.end() is not called, and nothing removes the file
terminate(files) == files

RECURSIVE formParts(_, _, _, _)
\* bodyParseFormData: the parts one after the other
formParts(props, files, parts, limits) ==
    IF Len(parts) = 0 THEN [end |-> Resolved, body |-> props, files |-> files]
    ELSE IF parts[1].t = "field"
    THEN IF overflow(props + parts[1].len, files, limits.request)
         THEN [end |-> Overflow413, body |-> 0, files |-> terminate(files)]
         ELSE formParts(props + parts[1].len, files, Tail(parts), limits)
    ELSE LET created == files \o <<[size |-> 0, written |-> 0, ended |-> FALSE]>>
         IN IF overflow(props, created, limits.request)
            THEN [end |-> Overflow413, body |-> 0, files |-> terminate(created)]
            ELSE LET s == streamPortions(created[Len(created)], parts[1].portions, limits.upload)
                     now == [created EXCEPT ![Len(created)] = s.file]
                 IN IF s.end # Resolved
                    THEN [end |-> s.end, body |-> 0, files |-> terminate(now)]
                    ELSE formParts(props, now, Tail(parts), limits)

bodyParseFormData(parts, limits) == formParts(0, <<>>, parts, limits)

\* bodyParseJSON for a body that comes in one chunk: capture tests what it
\* is given against max, terminate adds the rest of the buffer untested
bodyParseJSON(json, limits) ==
    IF json.file = 0
    THEN IF json.head > limits.request
         THEN [end |-> Overflow413, body |-> 0, files |-> <<>>]
         ELSE [end |-> Resolved, body |-> json.head + json.tail, files |-> <<>>]
    ELSE IF json.file > limits.upload
    THEN [end |-> Overflow413, body |-> 0,
          files |-> terminate(<<[size |-> json.file, written |-> 0, ended |-> FALSE]>>)]
    ELSE IF FileRecordLength + json.head > limits.request
    THEN [end |-> Overflow413, body |-> 0,
          files |-> terminate(<<[size |-> json.file, written |-> json.file, ended |-> TRUE]>>)]
    ELSE [end |-> Resolved, body |-> FileRecordLength + json.head + json.tail,
          files |-> <<[size |-> json.file, written |-> json.file, ended |-> TRUE]>>]

\* bodyParse for a post or put: the upload limit is 0 without the upload permission
bodyParse(dataType, body, mayUpload) ==
    LET limits == [request |-> RequestMax, upload |-> IF mayUpload THEN UploadMax ELSE 0]
    IN CASE dataType = "json" -> bodyParseJSON(body, limits)
         [] dataType = "urlenc" -> bodyParseText(body, limits)
         [] dataType = "text" -> bodyParseText(body, limits)
         [] dataType = "formdata" -> bodyParseFormData(body, limits)
         [] dataType = "octet" -> bodyParseOctet(body, limits)

\* the bodies of each type
BodyChunks == UNION {[1..n -> {3, 5}] : n \in 1..3}
BodyPortions == UNION {[1..n -> {3, 4}] : n \in 1..2}
BodyPart == [t : {"field"}, len : {2, 9}] \cup [t : {"file"}, portions : BodyPortions]
BodyParts == UNION {[1..n -> BodyPart] : n \in 1..2}
BodyJSON == [head : {2, 9}, tail : {1, 12}, file : {0, 4, 7}]
BodiesOf(dataType) ==
    CASE dataType = "json" -> BodyJSON
      [] dataType = "formdata" -> BodyParts
      [] OTHER -> BodyChunks
DataTypes == {"json", "urlenc", "text", "formdata", "octet"}

\* what the body holds in memory and the largest file it carries
sentBody(dataType, body) ==
    CASE dataType = "json" -> body.head + body.tail + (IF body.file = 0 THEN 0 ELSE FileRecordLength)
      [] dataType = "formdata" ->
           total([i \in 1..Len(body) |-> IF body[i].t = "field" THEN body[i].len ELSE FileRecordLength])
      [] dataType = "octet" -> 0
      [] OTHER -> total(body)
sentFile(dataType, body) ==
    CASE dataType = "json" -> body.file
      [] dataType = "formdata" ->
           IF \E i \in 1..Len(body) : body[i].t = "file"
           THEN CHOOSE m \in 0..100 :
                  /\ \E i \in 1..Len(body) : body[i].t = "file" /\ total(body[i].portions) = m
                  /\ \A i \in 1..Len(body) : body[i].t = "file" => total(body[i].portions) <= m
           ELSE 0
      [] dataType = "octet" -> total(body)
      [] OTHER -> 0

BodyInit ==
    /\ btemp = {}
    /\ bres = [kind |-> "none", n |-> 0]

\* requestProcessor's bodyParse for a post, and the answer to a rejection
bodyRequest ==
    /\ bres.n < MaxBodyRequests
    /\ \E dataType \in DataTypes, mayUpload \in BOOLEAN :
       \E body \in BodiesOf(dataType) :
       \E r \in {bodyParse(dataType, body, mayUpload)} :
          /\ btemp' = btemp \cup {[request |-> bres.n + 1, file |-> i, written |-> r.files[i].written,
                                   ended |-> r.files[i].ended] : i \in 1..Len(r.files)}
          /\ bres' = [kind |-> "post", n |-> bres.n + 1, dataType |-> dataType,
                      upload |-> IF mayUpload THEN UploadMax ELSE 0,
                      sent |-> sentBody(dataType, body), file |-> sentFile(dataType, body),
                      status |-> r.end.code, body |-> r.body,
                      created |-> Len(r.files)]

BodyNext == bodyRequest

\* the last request was a multipart upload with a file part above the limit
\* that was reached before the request ended otherwise
C24_FileTooLarge ==
    /\ bres.kind = "post" /\ bres.dataType = "formdata"
    /\ bres.file > bres.upload /\ bres.sent <= RequestMax

\* C24: a multipart upload with a file part above uploadMax fails with 413,
\* and no temp file of that request is left in the temp directory.
C24_UploadCeiling ==
    C24_FileTooLarge =>
        /\ bres.status = 413
        /\ \A f \in btemp : f.request # bres.n

\* what holds of C24: the upload fails with 413
C24_Fails413 == C24_FileTooLarge => bres.status = 413

\* the body in memory is larger than requestMax, or a file is larger than
\* the upload limit of the caller
C25_TooLarge ==
    /\ bres.kind = "post"
    /\ bres.sent > RequestMax \/ bres.file > bres.upload

\* C25: every parser fails such a request with 413.
C25_CeilingsEnforced == C25_TooLarge => bres.status = 413

\* what holds of C25: bodyParseFormData fails such a request with 413
C25_FormDataEnforced ==
    (C25_TooLarge /\ bres.dataType = "formdata") => bres.status = 413

\* a text body above requestMax that was parsed, with chunks left out
C25_Seen_Truncated ==
    ~(C25_TooLarge /\ bres.dataType = "text" /\ bres.status = 0 /\ bres.body < bres.sent)

(***************************************************************************)
(* One request through App.start's callback: the router over a table of    *)
(* the cors middleware and one handler, then processResponse, or           *)
(* errorHandler for what was thrown.  The response is what goes out: the   *)
(* status, the headers set on it and the body bytes node sends, which are  *)
(* none for a response to HEAD whatever is written to it.                  *)
(***************************************************************************)
VARIABLES
    xres        \* SpecPipeline: the last request, what ran for it and the response sent

pipeVars == <<xres>>

MaxPipeRequests == 2        \* the requests of a behaviour

AllowedHosts == {"https://example.net"}     \* asList(options.origins)
CorsMethods == "POST, GET, OPTIONS"         \* options.methods default
CorsHeaders == "Authorization, Content-type"    \* options.headers default
PipeOrigins == {"", "https://example.net", "https://other.test", "https://EXAMPLE.net"}
PipeMethods == {"get", "head", "post", "options"}
PipeVerbs == {"get", "post", "any"}

\* ctx.headers(): the headers of the context, "" and -1 for the ones not set
NoHeaders ==
    [acao |-> "", aceh |-> "", acam |-> "", acah |-> "", acac |-> "",
     ctype |-> "", clength |-> -1, location |-> ""]

\* what a handler does: returns data for the JSON branch, returns a
\* ResponseContext, buffered or streaming, or throws
PipeOutcomes ==
    {[kind |-> "data", text |-> "{...}", length |-> 5],
     [kind |-> "file", streaming |-> FALSE, length |-> 7],
     [kind |-> "file", streaming |-> TRUE, length |-> 7],
     [kind |-> "throw", thrown |-> [kind |-> "bare", val |-> 404]],
     [kind |-> "throw", thrown |-> [kind |-> "bare", val |-> 304]],
     [kind |-> "throw", thrown |-> [kind |-> "obj", hasCode |-> TRUE, code |-> 401, hasMsg |-> TRUE,
                                    msg |-> "Authentication failed!", text |-> "[object Object]"]]}

\* return null
ReturnNull == [kind |-> "data", text |-> "null", length |-> 4]

\* a variant of corsMW that lets every origin pass
corsMWOpen(origin, method, headers) ==
    IF origin = "" THEN [kind |-> "next", headers |-> headers]
    ELSE [kind |-> "next", headers |-> [headers EXCEPT !.acao = origin, !.aceh = "*"]]

\* corsMW(ctx): what it does with the request and the headers of the context
corsMW(origin, method, headers) ==
    IF origin = "" THEN [kind |-> "next", headers |-> headers]
    ELSE IF origin \in AllowedHosts
    THEN LET allowed == [headers EXCEPT !.acao = origin, !.aceh = "*"]
         IN IF verbIs({"options"}, method)
            THEN [kind |-> "return",
                  headers |-> [allowed EXCEPT !.acam = CorsMethods, !.acah = CorsHeaders,
                                              !.acac = "true"]]
            ELSE [kind |-> "next", headers |-> allowed]
    ELSE [kind |-> "throw", headers |-> headers]

\* serverware.router over the table [any '' corsMW, verb '' handler]: what
\* the chain returns or throws, the headers of the context, whether the
\* handler ran
chain(origin, method, verb, outcome) ==
    LET cors == corsMW(origin, method, NoHeaders)
    IN IF cors.kind = "return"
       THEN [result |-> ReturnNull, headers |-> cors.headers, ran |-> FALSE]
       ELSE IF cors.kind = "throw"
       THEN [result |-> [kind |-> "throw",
                         thrown |-> [kind |-> "obj", hasCode |-> TRUE, code |-> 403, hasMsg |-> TRUE,
                                     msg |-> "Unauthorized cross-site request",
                                     text |-> "[object Object]"]],
             headers |-> cors.headers, ran |-> FALSE]
       ELSE IF verbIs({verb}, method)
       THEN [result |-> outcome, headers |-> cors.headers, ran |-> TRUE]
       ELSE [result |-> [kind |-> "throw", thrown |-> [kind |-> "bare", val |-> 404]],
             headers |-> cors.headers, ran |-> FALSE]

\* node's http.ServerResponse: a response to HEAD has no body, and what is
\* written to it is dropped
hasBody(method) == method # "head"
wire(method, chunks) == IF hasBody(method) THEN SelectSeq(chunks, LAMBDA c : c.length > 0) ELSE <<>>

\* processResponse, JSON branch: tmp = !headOnly ? jxFromCircular(ctx.data, false) : ''
jsonText(headOnly, data) ==
    IF ~headOnly THEN [text |-> data.text, length |-> data.length] ELSE [text |-> "", length |-> 0]

\* processResponse(ctx, res)
processResponse(method, data, headers) ==
    LET headOnly == verbIs({"head"}, method)
    IN IF data.kind = "file"
       THEN LET own == [headers EXCEPT !.ctype = "mime",
                                       !.clength = IF data.streaming THEN @ ELSE data.length]
                set == IF headOnly THEN [own EXCEPT !.clength = 0] ELSE own
            IN [statusCode |-> 200, headers |-> set,
                written |-> IF headOnly THEN <<>>
                            ELSE <<[text |-> "file", length |-> data.length]>>]
       ELSE LET tmp == jsonText(headOnly, data)
            IN [statusCode |-> 200,
                headers |-> [headers EXCEPT !.ctype = "application/json", !.clength = tmp.length],
                written |-> <<tmp>>]

\* errorHandler(err, ctx, res): the headers of the context are not set on
\* the response
errorReply(thrown, redirect) ==
    LET ex == httpStatusMsg(thrown)
    IN IF ex.code = 404 /\ redirect
       THEN [statusCode |-> 301, headers |-> [NoHeaders EXCEPT !.location = "destination"],
             written |-> <<>>]
       ELSE IF ex.code < 400
       THEN [statusCode |-> ex.code, headers |-> NoHeaders, written |-> <<>>]
       ELSE [statusCode |-> 200,
             headers |-> [NoHeaders EXCEPT !.ctype = "application/json", !.clength = 9],
             written |-> <<[text |-> "eText", length |-> 9]>>]

\* the request callback of App.start
serve(origin, method, verb, outcome, redirect) ==
    LET c == chain(origin, method, verb, outcome)
        r == IF c.result.kind = "throw" THEN errorReply(c.result.thrown, redirect)
             ELSE processResponse(method, c.result, c.headers)
    IN [kind |-> "res", origin |-> origin, method |-> method, verb |-> verb,
        outcome |-> c.result.kind, ran |-> c.ran, ctx |-> c.headers,
        thrown |-> IF c.result.kind = "throw" THEN httpStatusMsg(c.result.thrown).code ELSE 0,
        statusCode |-> r.statusCode, headers |-> r.headers, body |-> wire(method, r.written)]

PipeInit == xres = [kind |-> "none", n |-> 0]

\* a request is received and answered
pipeRequest ==
    /\ xres.n < MaxPipeRequests
    /\ \E origin \in PipeOrigins, method \in PipeMethods, verb \in PipeVerbs,
          outcome \in PipeOutcomes, redirect \in BOOLEAN :
          xres' = [serve(origin, method, verb, outcome, redirect) EXCEPT !.kind = "res"]
                  @@ [n |-> xres.n + 1]

PipeNext == pipeRequest

C26_Seen_Refused ==
    ~(xres.kind = "res" /\ xres.origin = "https://other.test" /\ xres.thrown = 403
      /\ verbIs({xres.verb}, xres.method) /\ ~xres.ran)

\* a request from the configured origin whose handler threw: the response
\* carries no CORS headers
C26_Seen_ErrorWithoutHeaders ==
    ~(xres.kind = "res" /\ xres.origin \in AllowedHosts /\ xres.ran
      /\ xres.outcome = "throw" /\ xres.headers.acao = "")

\* the last request was a preflight from a configured origin
C27_Preflight ==
    xres.kind = "res" /\ xres.method = "options" /\ xres.origin \in AllowedHosts

\* C27: a preflight from a configured origin ends in the CORS middleware, no
\* later handler runs, and the response carries the three Allow headers and
\* has no body.
C27_CorsPreflight ==
    C27_Preflight =>
        /\ ~xres.ran
        /\ xres.headers.acam # "" /\ xres.headers.acah # "" /\ xres.headers.acac # ""
        /\ xres.body = <<>>

\* what holds of C27: all of it but the body, which is the text null
C27_PreflightHeaders ==
    C27_Preflight =>
        /\ ~xres.ran
        /\ xres.headers.acao = xres.origin
        /\ xres.headers.acam = CorsMethods /\ xres.headers.acah = CorsHeaders
        /\ xres.headers.acac = "true"
        /\ xres.statusCode = 200
        /\ xres.body = <<[text |-> "null", length |-> 4]>>

\* C28: a route registered for get matches a HEAD request, a route
\* registered for any matches every method, and a response to a HEAD
\* request has no body bytes, whatever the chain returned or threw.
C28_VerbsAndHead ==
    /\ check([method |-> {"get"}, route |-> ""], [method |-> "head", pathname |-> "/"])
    /\ \A m \in PipeMethods : check([method |-> {"any"}, route |-> ""], [method |-> m, pathname |-> "/"])
    /\ xres.kind = "res" =>
         /\ (xres.origin = "" /\ (xres.verb = "any" \/ (xres.verb = "get" /\ xres.method = "head")))
               => xres.ran
         /\ xres.method = "head" => xres.body = <<>>

\* C28 witness: a HEAD request reached a handler registered for get, which
\* returned data, and the response has headers and no body
C28_Witness ==
    /\ xres.kind = "res" /\ xres.method = "head" /\ xres.verb = "get" /\ xres.ran
    /\ xres.outcome = "data"
    /\ xres.headers.ctype = "application/json" /\ xres.body = <<>>

\* HEAD requests answered for a file and for an error
C28_Seen_HeadFile ==
    ~(xres.kind = "res" /\ xres.method = "head" /\ xres.ran /\ xres.outcome = "file"
      /\ xres.headers.clength = 0 /\ xres.body = <<>>)
C28_Seen_HeadError ==
    ~(xres.kind = "res" /\ xres.method = "head" /\ xres.ran /\ xres.thrown = 401
      /\ xres.headers.clength = 9 /\ xres.body = <<>>)

(***************************************************************************)
(* nativeware.content as App.build registers it, with the GET gate and the *)
(* POST branch that stores uploaded files under the root.  The files under *)
(* the root are named by their path below it, and "" stands for no file.   *)
(***************************************************************************)
VARIABLES
    ucfg,       \* SpecUpload: the content route: the verb it is registered for and its auth, NoCall before App.build
    ufs,        \* SpecUpload: the files under the root: the contents at each path
    ures        \* SpecUpload: the last request: the caller, the body, the outcome and the files after each entry

uploadVars == <<ucfg, ufs, ures>>

MaxUploadRequests == 2      \* the requests of a behaviour
MaxFiles == 2               \* the entries of a POST body

UploadPaths == {"a.txt", "b.txt", "a.bak"}

\* let [ authGet, authPost ] = asList(auth,'|'): the second is undefined,
\* here "", when auth names one list
authGetOf(auth) == auth[1]
authPostOf(auth) == IF Len(auth) >= 2 THEN auth[2] ELSE ""

\* authGet && !ctx.authorize(authGet)
getRefused(authGet, ctx) == authGet # "" /\ ~ctxAuthorize(ctx, Str(<<authGet>>))

\* a variant of postRefused with the gate of GET: no postAuth lets everybody post
postRefusedAsGet(authPost, ctx) == authPost # "" /\ ~ctxAuthorize(ctx, Str(<<authPost>>))

\* !authPost || !ctx.authorize(authPost)
postRefused(authPost, ctx) == authPost = "" \/ ~ctxAuthorize(ctx, Str(<<authPost>>))

\* a variant of mayWrite that stores every entry
mayWriteAlways(exists, f) == TRUE

\* !exists || f.force || f.backup
mayWrite(exists, f) == ~exists \/ f.force \/ f.backup # ""

\* one entry of the body: safeStat of the target, the copy to the backup,
\* then the write and the result pushed
postEntry(fs, f) ==
    LET exists == fs[f.name] # ""
        kept == IF exists /\ f.backup # "" THEN [fs EXCEPT ![f.backup] = fs[f.name]] ELSE fs
    IN IF mayWrite(exists, f)
       THEN [fs |-> [kept EXCEPT ![f.name] = f.contents], saved |-> TRUE]
       ELSE [fs |-> kept, saved |-> FALSE]

RECURSIVE postLoop(_, _, _)
\* for (let f of ctx.request.body): the files after each entry, and data
postLoop(stores, body, data) ==
    IF Len(body) = 0 THEN [stores |-> stores, data |-> data]
    ELSE LET r == postEntry(stores[Len(stores)], body[1])
         IN postLoop(Append(stores, r.fs), Tail(body), Append(data, r.saved))

\* the router's check of the content route and contentMW(ctx)
contentRoute(cfg, ctx, method, body, fs) ==
    IF ~verbIs({cfg.method}, method)
    THEN [thrown |-> 404, served |-> FALSE, stores |-> <<fs>>, data |-> <<>>]
    ELSE IF verbIs({"get"}, method)
    THEN IF getRefused(authGetOf(cfg.auth), ctx)
         THEN [thrown |-> 401, served |-> FALSE, stores |-> <<fs>>, data |-> <<>>]
         ELSE [thrown |-> 0, served |-> TRUE, stores |-> <<fs>>, data |-> <<>>]
    ELSE IF verbIs({"post"}, method)
    THEN IF postRefused(authPostOf(cfg.auth), ctx)
         THEN [thrown |-> 401, served |-> FALSE, stores |-> <<fs>>, data |-> <<>>]
         ELSE LET r == postLoop(<<fs>>, body, <<>>)
              IN [thrown |-> 0, served |-> FALSE, stores |-> r.stores, data |-> r.data]
    ELSE [thrown |-> 405, served |-> FALSE, stores |-> <<fs>>, data |-> <<>>]

\* the callers: nobody, and users of each group
UploadCallers ==
    {createContext} \cup
    {[authenticated |-> "bearer",
      user |-> [username |-> Alice, member |-> Str(<<g>>), status |-> "ACTIVE"]] :
        g \in {"users", "editors", "admin"}}

\* the content routes: the default one App.build adds for cfg.root, and
\* handlers with an auth option
UploadRoutes ==
    {[kind |-> "cfg", default |-> TRUE, method |-> "get", auth |-> <<"">>]} \cup
    [kind : {"cfg"}, default : {FALSE}, method : {"any"},
     auth : {<<"">>, <<"users">>, <<"users", "editors">>, <<"", "editors">>}]

UploadEntry(c) ==
    [name : {"a.txt", "b.txt"}, force : BOOLEAN, backup : {"", "a.bak"}, contents : {c}]
UploadBodies ==
    {b \in {<<f>> : f \in UploadEntry("new1")} \cup
            {<<f, g>> : f \in UploadEntry("new1"), g \in UploadEntry("new2")} :
        Len(b) <= MaxFiles}

UploadInit ==
    /\ ucfg = NoCall
    /\ ufs = [p \in UploadPaths |-> IF p = "a.txt" THEN "old" ELSE ""]
    /\ ures = [kind |-> "none", n |-> 0]

\* App.build: the content route is added
contentBuild ==
    /\ ucfg = NoCall
    /\ ucfg' \in UploadRoutes
    /\ UNCHANGED <<ufs, ures>>

\* a request that reaches the content route
contentRequest ==
    /\ ucfg # NoCall
    /\ ures.n < MaxUploadRequests
    /\ \E ctx \in UploadCallers, method \in {"get", "head", "post", "put"} :
       \E body \in IF method = "post" THEN UploadBodies ELSE {<<>>} :
       \E r \in {contentRoute(ucfg, ctx, method, body, ufs)} :
          /\ ufs' = r.stores[Len(r.stores)]
          /\ ures' = [kind |-> "req", n |-> ures.n + 1, ctx |-> ctx, method |-> method,
                      body |-> body, thrown |-> r.thrown, served |-> r.served,
                      stores |-> r.stores, data |-> r.data]
    /\ UNCHANGED ucfg

UploadNext == contentBuild \/ contentRequest

\* C29: a GET is served to the callers authorized for a non-empty getAuth
\* only, files are changed by a POST of a caller authorized for a non-empty
\* postAuth only, and a content route without postAuth, the default one
\* included, changes no file.
C29_ContentAuthorization ==
    /\ ures.kind = "req" =>
         /\ (ures.served /\ authGetOf(ucfg.auth) # "")
               => ctxAuthorize(ures.ctx, Str(<<authGetOf(ucfg.auth)>>))
         /\ ures.stores # <<ures.stores[1]>> =>
               /\ ures.method = "post" /\ authPostOf(ucfg.auth) # ""
               /\ ctxAuthorize(ures.ctx, Str(<<authPostOf(ucfg.auth)>>))
    /\ (ucfg # NoCall /\ authPostOf(ucfg.auth) = "") =>
         ufs = [p \in UploadPaths |-> IF p = "a.txt" THEN "old" ELSE ""]

\* C29 witness: under auth users|editors an editor's POST stored a new file
C29_Witness ==
    /\ ures.kind = "req" /\ ucfg.auth = <<"users", "editors">>
    /\ ures.method = "post" /\ ures.ctx.user.member = Str(<<"editors">>)
    /\ ures.data = <<TRUE>> /\ ufs["b.txt"] = "new1"

\* under the same auth a member of users was refused a POST and served a
\* GET, nobody was refused a GET, and a POST to the default route did not
\* reach the handler
C29_Seen_PostRefused ==
    ~(ures.kind = "req" /\ ucfg.auth = <<"users", "editors">> /\ ures.method = "post"
      /\ ures.ctx.user.member = Str(<<"users">>) /\ ures.thrown = 401)
C29_Seen_GetRefused ==
    ~(ures.kind = "req" /\ ucfg.auth = <<"users", "editors">> /\ ures.method = "get"
      /\ ures.ctx.authenticated = "" /\ ures.thrown = 401)
C29_Seen_DefaultPost ==
    ~(ures.kind = "req" /\ ures.method = "post" /\ ucfg.default /\ ures.thrown = 404)

\* C30: an entry whose target exists leaves it as it is and gives false
\* unless force or backup is set, and with a backup the contents the target
\* had are at the backup path once the target is overwritten.
C30_NoSilentOverwrite ==
    ures.kind = "req" =>
        \A k \in 1..Len(ures.data) :
            LET f == ures.body[k]
                before == ures.stores[k]
                after == ures.stores[k + 1]
            IN before[f.name] # "" =>
                 /\ (~f.force /\ f.backup = "") => (after = before /\ ures.data[k] = FALSE)
                 /\ (f.force \/ f.backup # "") => (after[f.name] = f.contents /\ ures.data[k] = TRUE)
                 /\ f.backup # "" => after[f.backup] = before[f.name]
                 /\ f.backup = "" => \A p \in UploadPaths \ {f.name} : after[p] = before[p]

\* C30 witness: one request was refused the overwrite of a.txt and then
\* overwrote it with a backup, which holds the old contents
C30_Witness ==
    /\ ures.kind = "req" /\ Len(ures.data) = 2
    /\ ures.body[1].name = "a.txt" /\ ures.body[2].name = "a.txt"
    /\ ures.data = <<FALSE, TRUE>>
    /\ ures.stores[1]["a.txt"] = "old"
    /\ ufs["a.txt"] = "new2" /\ ufs["a.bak"] = "old"

(***************************************************************************)
(* proxyware.proxyRouter: the route of a request by its Host header.  A    *)
(* string is the sequence of its characters.  self.routes is the routes    *)
(* object of the configuration: a plain object, so a lookup finds the keys *)
(* the configuration registered and, for any other key, what               *)
(* Object.prototype holds under it (constructor, toString, ...).           *)
(***************************************************************************)
VARIABLES
    hroutes,    \* SpecProxy: the keys of self.routes, NoCall before Proxy(config)
    hres        \* SpecProxy: the last request: its Host header and what router did

proxyVars == <<hroutes, hres>>

MaxHostLen == 4             \* the longest Host header of the alphabet
MaxProxyRequests == 1       \* the requests made

HostChars == {"a", "b", ".", ":"}

\* a name Object.prototype defines
Constructor == <<"c", "o", "n", "s", "t", "r", "u", "c", "t", "o", "r">>

ProtoKeys == {Constructor}

\* String.prototype.indexOf, 0-based, -1 when c is not in s
indexOf(s, c) ==
    IF \E i \in 1..Len(s) : s[i] = c
    THEN (CHOOSE i \in 1..Len(s) : s[i] = c /\ \A j \in 1..(i - 1) : s[j] # c) - 1
    ELSE -1

\* String.prototype.substr(k): the string from 0-based position k on
substr(s, k) == SubSeq(s, k + 1, Len(s))

\* s.split(':')[0]
beforeColon(s) ==
    IF indexOf(s, ":") = -1 THEN s ELSE SubSeq(s, 1, indexOf(s, ":"))

\* (req.headers.host||'').split(':')[0]
hostOf(present, value) == IF present THEN beforeColon(value) ELSE <<>>

\* '*.' + host.substr(host.indexOf('.')+1)
wildKey(h) == <<"*", ".">> \o substr(h, indexOf(h, ".") + 1)

\* self.routes[key]: an own key, an inherited one, or undefined
routeAt(keys, key) ==
    IF key \in keys THEN [kind |-> "route", key |-> key]
    ELSE IF key \in ProtoKeys THEN [kind |-> "inherited", key |-> key]
    ELSE Undefined

\* self.routes[host] || self.routes['*.' + ...]
routeOf(keys, h) ==
    IF routeAt(keys, h) # Undefined THEN routeAt(keys, h) ELSE routeAt(keys, wildKey(h))

\* function router(req,res): proxy.web to the route, or res.end()
proxyRoute(keys, present, value) ==
    LET r == routeOf(keys, hostOf(present, value))
    IN  IF r # Undefined THEN [did |-> "web", target |-> r]
        ELSE [did |-> "end", target |-> Undefined]

RECURSIVE HostStrings(_)

HostStrings(n) ==
    IF n = 0 THEN {<<>>}
    ELSE HostStrings(n - 1) \cup
         {Append(s, c) : s \in {t \in HostStrings(n - 1) : Len(t) = n - 1}, c \in HostChars}

HostHeaders == HostStrings(MaxHostLen) \cup {Constructor}

RouteKeys ==
    {<<"a", ".", "b">>, <<"*", ".", "b">>, <<"*", ".", "a">>, <<"b">>, <<"*", ".">>}

ProxyInit ==
    /\ hroutes = NoCall
    /\ hres = [did |-> "none", n |-> 0]

\* Proxy(config): routes: config.routes
proxyBuild ==
    /\ hroutes = NoCall
    /\ hroutes' \in [keys : SUBSET RouteKeys]
    /\ UNCHANGED hres

\* a request arrives
proxyRequest ==
    /\ hroutes # NoCall
    /\ hres.n < MaxProxyRequests
    /\ \E present \in BOOLEAN :
       \E value \in (IF present THEN HostHeaders ELSE {<<>>}) :
       \E r \in {proxyRoute(hroutes.keys, present, value)} :
            hres' = [did |-> r.did, target |-> r.target, present |-> present,
                     value |-> value, n |-> hres.n + 1]
    /\ UNCHANGED hroutes

ProxyNext == proxyBuild \/ proxyRequest

\* the hostname of the request: the Host header up to its port
C31_Hostname == IF hres.present THEN beforeColon(hres.value) ELSE <<>>

\* the hostname with its first label removed
C31_Parent ==
    IF indexOf(C31_Hostname, ".") = -1 THEN <<>>
    ELSE substr(C31_Hostname, indexOf(C31_Hostname, ".") + 1)

C31_Wildcard == <<"*", ".">> \o C31_Parent

\* C31: a request is forwarded to the route registered for its exact
\* hostname when there is one, otherwise to the route registered for '*.'
\* plus the hostname without its first label; when neither is registered
\* nothing is forwarded and the connection is closed.
C31_HostRouting ==
    hres.did # "none" =>
        IF C31_Hostname \in hroutes.keys
        THEN hres.did = "web" /\ hres.target = [kind |-> "route", key |-> C31_Hostname]
        ELSE IF C31_Wildcard \in hroutes.keys
        THEN hres.did = "web" /\ hres.target = [kind |-> "route", key |-> C31_Wildcard]
        ELSE hres.did = "end"

\* C31, for a hostname of more than one label: the exact route, else the
\* wildcard route, else the connection is closed.
C31_DottedHosts ==
    (/\ hres.did # "none"
     /\ indexOf(C31_Hostname, ".") # -1) => C31_HostRouting

\* an exact route was taken though the wildcard route is registered too
C31_Seen_ExactFirst ==
    /\ hres.did = "web"
    /\ C31_Hostname \in hroutes.keys
    /\ C31_Wildcard \in hroutes.keys
    /\ hres.target.key = C31_Hostname

\* a request for a name no route is registered for was forwarded
C31_Seen_Inherited ==
    /\ hres.did = "web"
    /\ hres.target.kind = "inherited"

\* a hostname of one label was forwarded to the wildcard route of itself
C31_Seen_OwnWildcard ==
    /\ hres.did = "web"
    /\ hres.target.kind = "route"
    /\ C31_Hostname \notin hroutes.keys
    /\ C31_Wildcard \notin hroutes.keys

(***************************************************************************)
(* proxyware.Proxy and proxyware.sslContext: the TLS context of a secure   *)
(* proxy and its reload by the watcher on the certificate file.            *)
(*                                                                         *)
(* A certificate file is the number of times it was written: its mtime and *)
(* its contents change together.  A context is the number of the           *)
(* certificate it was built from.  sslContext assigns self without         *)
(* declaring it, so self is one variable of the process that every run of  *)
(* every proxy sets and reads; a run is cut where it awaits.  The key file *)
(* is read and not written again.                                          *)
(***************************************************************************)
VARIABLES
    sdisk,      \* SpecSni: per proxy, the certificate file
    sevq,       \* SpecSni: per proxy, the 'change' events fs.watch has not delivered yet
    sssl,       \* SpecSni: per proxy, proxies[tag].ssl: busy, context, data.cert, timestamp
    sself,      \* SpecSni: the global self of sslContext (at first the proxy set up last)
    sruns,      \* SpecSni: the reloads in flight: where each one waits
    swrites,    \* SpecSni: the times a certificate was written
    slast       \* SpecSni: the last event delivered: the proxy and whether it was dropped

sniVars == <<sdisk, sevq, sssl, sself, sruns, swrites, slast>>

MaxCertWrites == 3          \* the times a certificate file is written
MaxEvents == 2              \* the undelivered events of one watcher
MaxRuns == 3                \* the reloads in flight in the process

Tags == {1, 2}

Slots == 1..MaxRuns

Idle == [pc |-> "idle"]

\* SNICallback: (host,cb)=>cb(null,px.ssl.context)
SNICallback(t) == sssl[t].context

\* variant: the watcher takes every event
watchBusyNever(ssl) == FALSE

\* if (ssl.busy) return;
watchBusy(ssl) == ssl.busy

\* the reloads the watcher of proxy t started that have not ended
inFlight(runs, t) == {i \in Slots : runs[i] # Idle /\ runs[i].tag = t}

SniInit ==
    /\ sdisk = [t \in Tags |-> 0]
    /\ sevq = [t \in Tags |-> 0]
    /\ sssl = [t \in Tags |-> [busy |-> FALSE, context |-> 0, cert |-> 0, timestamp |-> 0]]
    /\ sself = 2
    /\ sruns = [i \in Slots |-> Idle]
    /\ swrites = 0
    /\ slast = NoCall

\* the certificate file of proxy t is written; the watcher gets one or two events
certWrite(t) ==
    /\ swrites < MaxCertWrites
    /\ swrites' = swrites + 1
    /\ sdisk' = [sdisk EXCEPT ![t] = @ + 1]
    /\ \E k \in 1..2 :
        /\ sevq[t] + k <= MaxEvents
        /\ sevq' = [sevq EXCEPT ![t] = @ + k]
    /\ UNCHANGED <<sssl, sself, sruns, slast>>

\* the fs.watch callback with evt 'change': busy is set and fs.stat is called
watchEvent(t) ==
    /\ sevq[t] > 0
    /\ sevq' = [sevq EXCEPT ![t] = @ - 1]
    /\ slast' = [kind |-> "event", tag |-> t, dropped |-> watchBusy(sssl[t])]
    /\ IF watchBusy(sssl[t])
       THEN UNCHANGED <<sssl, sruns>>
       ELSE /\ \E i \in Slots : sruns[i] = Idle
            /\ sssl' = [sssl EXCEPT ![t].busy = TRUE]
            /\ LET i == CHOOSE j \in Slots : sruns[j] = Idle /\ \A h \in 1..(j - 1) : sruns[h] # Idle
               IN  sruns' = [sruns EXCEPT ![i] = [pc |-> "stat", tag |-> t]]
    /\ UNCHANGED <<sdisk, sself, swrites>>

\* the fs.stat callback: with another mtime sslContext(tag) is called and runs
\* to its first await (self is set, the key file is asked for)
statDone(i) ==
    /\ sruns[i].pc = "stat"
    /\ LET t == sruns[i].tag
       IN  IF sdisk[t] # sssl[t].timestamp
           THEN /\ sself' = t
                /\ sruns' = [sruns EXCEPT ![i] = [pc |-> "key", tag |-> t, mtime |-> sdisk[t], dst |-> t]]
           ELSE /\ sruns' = [sruns EXCEPT ![i] = Idle]
                /\ UNCHANGED sself
    /\ UNCHANGED <<sdisk, sevq, sssl, swrites, slast>>

\* sslContext after the key file was read: the next turn of the loop asks
\* for self.cfg.ssl.cert, to be stored in self.ssl.data
readKeyDone(i) ==
    /\ sruns[i].pc = "key"
    /\ sruns' = [sruns EXCEPT ![i] = [@ EXCEPT !.pc = "cert", !.dst = sself]]
    /\ UNCHANGED <<sdisk, sevq, sssl, sself, swrites, slast>>

\* sslContext after the certificate file was read: the data is stored,
\* self.ssl.context is built from self.ssl.data, and openssl is started
readCertDone(i) ==
    /\ sruns[i].pc = "cert"
    /\ LET d == sruns[i].dst
           loaded == [sssl EXCEPT ![d].cert = sdisk[d]]
       IN  sssl' = [loaded EXCEPT ![sself].context = loaded[sself].cert]
    /\ sruns' = [sruns EXCEPT ![i] = [pc |-> "exec", tag |-> @.tag, mtime |-> @.mtime]]
    /\ UNCHANGED <<sdisk, sevq, sself, swrites, slast>>

\* sslContext returns; then: ssl.timestamp = s.mtime, ssl.busy = false
execDone(i) ==
    /\ sruns[i].pc = "exec"
    /\ sssl' = [sssl EXCEPT ![sruns[i].tag].timestamp = sruns[i].mtime,
                            ![sruns[i].tag].busy = FALSE]
    /\ sruns' = [sruns EXCEPT ![i] = Idle]
    /\ UNCHANGED <<sdisk, sevq, sself, swrites, slast>>

SniNext ==
    \/ \E t \in Tags : certWrite(t)
    \/ \E t \in Tags : watchEvent(t)
    \/ \E i \in Slots : statDone(i)
    \/ \E i \in Slots : readKeyDone(i)
    \/ \E i \in Slots : readCertDone(i)
    \/ \E i \in Slots : execDone(i)

\* C32: whatever events came before, after the certificate file is written
\* with another mtime the context is eventually rebuilt, and from then on
\* the SNI callback gives the context of the file.
C32_HotReload ==
    \A t \in Tags : <>[](SNICallback(t) = sdisk[t])

\* a proxy that takes no more events although its file is not its context's
C32_Seen_Stuck ==
    \E t \in Tags :
        /\ sssl[t].busy
        /\ inFlight(sruns, t) = {}
        /\ sevq[t] = 0
        /\ SNICallback(t) # sdisk[t]

\* a reload of one proxy ended without building that proxy's context
C32_Seen_OtherContext ==
    \E t \in Tags :
        /\ ~sssl[t].busy
        /\ sssl[t].timestamp = sdisk[t]
        /\ SNICallback(t) # sdisk[t]

\* a proxy has at most one reload in flight, and only while busy is set
C35_OneInFlight ==
    \A t \in Tags :
        /\ Cardinality(inFlight(sruns, t)) <= 1
        /\ inFlight(sruns, t) # {} => sssl[t].busy

\* an event delivered while busy is set starts no reload and leaves the
\* context, the remembered mtime and the flag as they are
C35_BusyIgnores ==
    [][\A t \in Tags :
        (sevq'[t] < sevq[t] /\ sssl[t].busy) =>
            (sssl' = sssl /\ sruns' = sruns /\ sself' = sself)]_sniVars

\* C35: a proxy has at most one reload (the stat and the sslContext run the
\* watcher started) in flight at any time, and an event that comes while
\* the busy flag is set starts no reload and leaves the context, the
\* remembered mtime and the flag unchanged.
C35_NoOverlap == []C35_OneInFlight /\ C35_BusyIgnores

\* an event came while the proxy's reload was in flight and was dropped
C35_Witness ==
    /\ slast # NoCall
    /\ IF slast = NoCall THEN FALSE
       ELSE /\ slast.dropped
            /\ inFlight(sruns, slast.tag) # {}
            /\ sruns[CHOOSE i \in Slots : sruns[i] # Idle /\ sruns[i].tag = slast.tag].pc = "cert"

(***************************************************************************)
(* jxDB with its file: changed and save, watchDB and reload.               *)
(*                                                                         *)
(* The tree is the number of the mutation that made it; a file holds the   *)
(* JSON text of a tree, text that is no JSON ("bad"), or cannot be read    *)
(* ("gone").  A timeout is its id.  fsp.writeFile is cut in two: the data  *)
(* reaches the file (the watcher is told), then the promise settles.  The  *)
(* 'rename' events of the watcher are left out: the callback does nothing  *)
(* for them.                                                               *)
(***************************************************************************)
VARIABLES
    wdef,       \* SpecWatch: def.readOnly and the private writeable it gives, NoCall before new jxDB
    wtree,      \* SpecWatch: privateDB
    wfile,      \* SpecWatch: the file
    wtimers,    \* SpecWatch: the timeouts of changed() that are pending
    wtimex,     \* SpecWatch: this.timex, the id of the last timeout set, 0 for null
    wwrites,    \* SpecWatch: the fsp.writeFile calls in flight
    winhibit,   \* SpecWatch: this.watchInhibited
    wevq,       \* SpecWatch: the 'change' events not yet delivered, by what caused them
    wwait,      \* SpecWatch: watchWait: who set the pending timeout, {} when none is pending
    wreload,    \* SpecWatch: the reload in flight, NoCall for none
    wlast,      \* SpecWatch: the last reload that ended, the last event delivered
    wn          \* SpecWatch: the mutations and the external changes made

watchVars == <<wdef, wtree, wfile, wtimers, wtimex, wwrites, winhibit, wevq,
               wwait, wreload, wlast, wn>>

MaxMods == 2                \* the mutations of the store
MaxExts == 2                \* the changes of the file made from outside
MaxInFlight == 2            \* the writeFile calls in flight
MaxQueued == 1              \* the undelivered events of one cause
ExtBase == 10               \* the trees written from outside are numbered from here

Tree(v) == [kind |-> "tree", v |-> v]

\* JSON.stringify(this.db(), ...) or tabulate(this.db())
treeText(tree) == [kind |-> "json", v |-> tree.v]

\* this.db({source: jxTo(source)}): jxTo gives its dflt, undefined, for text
\* that is no JSON, and the setter stores it
dbSource(text, tree) == IF text.kind = "json" THEN Tree(text.v) ELSE Undefined

\* changed(): clearTimeout(this.timex); this.timex = setTimeout(...)
changedTimers(timers, timex, id) == (timers \ {timex}) \cup {id}

\* s without its i-th element
without(s, i) == SubSeq(s, 1, i - 1) \o SubSeq(s, i + 1, Len(s))

WatchInit ==
    /\ wdef = NoCall
    /\ wtree = Tree(0)
    /\ wfile = treeText(Tree(0))
    /\ wtimers = {}
    /\ wtimex = 0
    /\ wwrites = <<>>
    /\ winhibit = FALSE
    /\ wevq = [own |-> 0, ext |-> 0]
    /\ wwait = {}
    /\ wreload = NoCall
    /\ wlast = [reload |-> NoCall, event |-> NoCall]
    /\ wn = [mods |-> 0, exts |-> 0]

\* new jxDB(def) on the file: this.readOnly(def.readOnly), and the file is watched
jxDBw ==
    /\ wdef = NoCall
    /\ \E ro \in PersistReadOnly :
        wdef' = [kind |-> "def", readOnly |-> ro, writeable |-> readOnly(ro, TRUE)]
    /\ UNCHANGED <<wtree, wfile, wtimers, wtimex, wwrites, winhibit, wevq, wwait, wreload,
                   wlast, wn>>

\* a modify call that changes the tree, changed() included
storeModify ==
    /\ wdef # NoCall
    /\ wtree # Undefined
    /\ wn.mods < MaxMods
    /\ wn' = [wn EXCEPT !.mods = @ + 1]
    /\ wtree' = Tree(wn.mods + 1)
    /\ wtimers' = changedTimers(wtimers, wtimex, wn.mods + 1)
    /\ wtimex' = wn.mods + 1
    /\ UNCHANGED <<wdef, wfile, wwrites, winhibit, wevq, wwait, wreload, wlast>>

\* a timeout of changed() fires: save().  Without a tree save throws in the
\* callback of the timeout, which ends the process: that is not followed.
saveFire(id) ==
    /\ id \in wtimers
    /\ (readOnly("undefined", wdef.writeable) \/ wtree # Undefined)
    /\ wtimers' = wtimers \ {id}
    /\ IF readOnly("undefined", wdef.writeable)
       THEN UNCHANGED <<wwrites, winhibit>>
       ELSE /\ Len(wwrites) < MaxInFlight
            /\ winhibit' = TRUE
            /\ wwrites' = Append(wwrites, [text |-> treeText(wtree), written |-> FALSE])
    /\ UNCHANGED <<wdef, wtree, wfile, wtimex, wevq, wwait, wreload, wlast, wn>>

\* the data of a writeFile call reaches the file; the watcher is told
writeData(i) ==
    /\ i \in 1..Len(wwrites)
    /\ ~wwrites[i].written
    /\ wevq.own < MaxQueued
    /\ wfile' = wwrites[i].text
    /\ wevq' = [wevq EXCEPT !.own = @ + 1]
    /\ wwrites' = [wwrites EXCEPT ![i].written = TRUE]
    /\ UNCHANGED <<wdef, wtree, wtimers, wtimex, winhibit, wwait, wreload, wlast, wn>>

\* writeFile resolves: then(x => { ...; this.watchInhibited = false; })
writeResolve(i) ==
    /\ i \in 1..Len(wwrites)
    /\ wwrites[i].written
    /\ wwrites' = without(wwrites, i)
    /\ winhibit' = FALSE
    /\ UNCHANGED <<wdef, wtree, wfile, wtimers, wtimex, wevq, wwait, wreload, wlast, wn>>

\* writeFile rejects: catch(e => { this.scribble.error(...) })
writeReject(i) ==
    /\ i \in 1..Len(wwrites)
    /\ ~wwrites[i].written
    /\ wwrites' = without(wwrites, i)
    /\ UNCHANGED <<wdef, wtree, wfile, wtimers, wtimex, winhibit, wevq, wwait,
                   wreload, wlast, wn>>

\* the file is changed from outside: another tree, text that is no JSON, or
\* the file is taken away (no 'change' event)
extChange ==
    /\ wdef # NoCall
    /\ wn.exts < MaxExts
    /\ wn' = [wn EXCEPT !.exts = @ + 1]
    /\ \E kind \in {"json", "bad", "gone"} :
        /\ wfile' = IF kind = "json" THEN [kind |-> "json", v |-> ExtBase + wn.exts]
                    ELSE [kind |-> kind]
        /\ IF kind = "gone" THEN UNCHANGED wevq
           ELSE /\ wevq.ext < MaxQueued
                /\ wevq' = [wevq EXCEPT !.ext = @ + 1]
    /\ UNCHANGED <<wdef, wtree, wtimers, wtimex, wwrites, winhibit, wwait, wreload, wlast>>

\* the fs.watch callback with evt 'change'
watchDeliver(cause) ==
    /\ wevq[cause] > 0
    /\ wevq' = [wevq EXCEPT ![cause] = @ - 1]
    /\ wlast' = [wlast EXCEPT !.event = [kind |-> "event", cause |-> cause, inhibited |-> winhibit]]
    /\ wwait' = IF winhibit THEN wwait ELSE wwait \cup {cause}
    /\ UNCHANGED <<wdef, wtree, wfile, wtimers, wtimex, wwrites, winhibit, wreload, wn>>

\* the watchWait timeout fires: self.reload() runs to its await
waitFire ==
    /\ wwait # {}
    /\ wreload = NoCall
    /\ wreload' = [kind |-> "reload", causes |-> wwait]
    /\ wwait' = {}
    /\ UNCHANGED <<wdef, wtree, wfile, wtimers, wtimex, wwrites, winhibit, wevq, wlast, wn>>

\* reload() after fsp.readFile: the tree is replaced, or the catch warns
\* when the file could not be read; then(x => { self.watchInhibited = false; })
reloadDone ==
    /\ wreload # NoCall
    /\ wtree' = IF wfile.kind = "gone" THEN wtree ELSE dbSource(wfile, wtree)
    /\ winhibit' = FALSE
    /\ wlast' = [wlast EXCEPT !.reload = [kind |-> "reload", causes |-> wreload.causes,
                                          file |-> wfile.kind, before |-> wtree,
                                          after |-> wtree']]
    /\ wreload' = NoCall
    /\ UNCHANGED <<wdef, wfile, wtimers, wtimex, wwrites, wevq, wwait, wn>>

WatchNext ==
    \/ jxDBw
    \/ storeModify
    \/ \E id \in 1..MaxMods : saveFire(id)
    \/ \E i \in 1..MaxInFlight : writeData(i)
    \/ \E i \in 1..MaxInFlight : writeResolve(i)
    \/ \E i \in 1..MaxInFlight : writeReject(i)
    \/ extChange
    \/ \E cause \in {"own", "ext"} : watchDeliver(cause)
    \/ waitFire
    \/ reloadDone

\* at most one timeout of changed() is pending, the one this.timex names
C33_OneTimer ==
    /\ Cardinality(wtimers) <= 1
    /\ wtimers \subseteq {wtimex}

\* C33: at any time at most one persist timer is pending and at most one
\* file write is in flight for a store; a mutation that comes while a timer
\* is pending re-arms that one timer.
C33_PersistDiscipline ==
    /\ C33_OneTimer
    /\ Len(wwrites) <= 1

\* after two mutations one write, of the last tree, is in flight
C33_Seen_Burst ==
    /\ wn.mods = 2
    /\ wtimers = {}
    /\ Len(wwrites) = 1
    /\ wwrites[1].text = treeText(Tree(2))
    /\ wfile = treeText(Tree(0))

\* two writes of the store are in flight
C33_Seen_TwoWrites == Len(wwrites) = 2

\* C34: an event caused by the store's own write never leads to a reload,
\* and when no save is under way any more, whether its write succeeded or
\* failed, the watcher-inhibit flag is clear.
C34_WatcherInhibit ==
    /\ IF wreload = NoCall THEN TRUE ELSE wreload.causes # {"own"}
    /\ (wwrites = <<>> /\ wreload = NoCall) => ~winhibit

\* an event that is delivered while the flag is set arms no reload
C34_InhibitedIgnored ==
    [][\A c \in {"own", "ext"} :
        (wevq'[c] < wevq[c] /\ winhibit) => wwait' = wwait]_watchVars

\* a reload runs that only the store's own write asked for
C34_Seen_OwnReload ==
    IF wreload = NoCall THEN FALSE ELSE wreload.causes = {"own"}

\* the flag is still set although the only write has failed
C34_Seen_StuckInhibit ==
    /\ winhibit
    /\ wwrites = <<>>
    /\ wreload = NoCall
    /\ wwait = {}

\* the last reload could not read the file or read text that is no JSON
C39_Failed ==
    IF wlast.reload = NoCall THEN FALSE ELSE wlast.reload.file # "json"

\* C39: after a reload that could not read the file, or read text that is
\* no JSON, the tree is the tree from before the reload.
C39_FailedReload ==
    C39_Failed => wlast.reload.after = wlast.reload.before

\* the part that holds: a reload that cannot read the file keeps the tree
C39_UnreadableKeeps ==
    IF wlast.reload = NoCall THEN TRUE
    ELSE wlast.reload.file = "gone" => wlast.reload.after = wlast.reload.before

\* a reload that could not read the file has ended
C39_Seen_Unreadable ==
    IF wlast.reload = NoCall THEN FALSE ELSE wlast.reload.file = "gone"

\* a reload of text that is no JSON left the store without a tree
C39_Seen_NoTree ==
    /\ wtree = Undefined
    /\ IF wlast.reload = NoCall THEN FALSE ELSE wlast.reload.file = "bad"

(***************************************************************************)
(* Short codes in use: GET /user/code stores a code, POST /user/code and   *)
(* Basic authentication check it.  getUser gives a copy of the stored      *)
(* record (query copies its result), so what authenticate deletes from the *)
(* user it holds is not deleted from the store.                            *)
(***************************************************************************)
VARIABLES
    ouser,      \* SpecOneShot: Alice's record in the users collection
    onow,       \* SpecOneShot: the clock, in milliseconds
    oused,      \* SpecOneShot: the passcodes a request was accepted on
    olast,      \* SpecOneShot: the last request that presented a code or a password
    ogens       \* SpecOneShot: the codes stored so far

oneShotVars == <<ouser, onow, oused, olast, ogens>>

MaxCodes == 2               \* the codes GET /user/code stores
MaxOneShotMs == 800000      \* the clock stops here
OneShotTickMs == 400000     \* one step of the clock

OneCodes == <<"123456", "654321">>
OneChallenges == {"123456", "654321", "pwA", "bad"}

\* authenticate, Basic: the user is ACTIVE and the password or the passcode is valid
basicValid(user, pw, now) ==
    /\ user.status = "ACTIVE"
    /\ (checkPW(pw, user.credentials.hash) \/ checkCode(pw, user.credentials.passcode, now))

\* the Basic authentication was valid by the passcode, not by the password
basicByCode(user, pw, now) ==
    /\ basicValid(user, pw, now)
    /\ ~checkPW(pw, user.credentials.hash)

OneShotInit ==
    /\ ouser = [username |-> Alice, status |-> "PENDING",
                credentials |-> [hash |-> bcryptHash("pwA"), passcode |-> NoPasscode]]
    /\ onow = 0
    /\ oused = {}
    /\ olast = NoRes
    /\ ogens = 0

\* GET /user/code/<user>: usr.credentials.passcode = auth.getActivationCode(); chgUser
oneGetCode ==
    /\ ogens < MaxCodes
    /\ ogens' = ogens + 1
    /\ ouser' = [ouser EXCEPT !.credentials.passcode =
                                 genCode(OneCodes[ogens + 1], ActivationExpiration, onow)]
    /\ UNCHANGED <<onow, oused, olast>>

\* POST /user/code/<user>/<code>
oneActivate ==
    \E opt \in OneChallenges : \E who \in {postCode(ouser, opt, onow)} :
        /\ ouser' = who
        /\ olast' = [kind |-> "activate", code |-> opt, at |-> onow,
                     passcode |-> ouser.credentials.passcode,
                     accepted |-> (who.status # ouser.status),
                     reused |-> (ouser.credentials.passcode \in oused)]
        /\ oused' = IF who.status # ouser.status
                    THEN oused \cup {ouser.credentials.passcode} ELSE oused
        /\ UNCHANGED <<onow, ogens>>

\* a request with Authorization: Basic <user>:<pw>
oneBasic ==
    \E pw \in OneChallenges :
        /\ olast' = [kind |-> "basic", code |-> pw, at |-> onow,
                     passcode |-> ouser.credentials.passcode,
                     accepted |-> basicByCode(ouser, pw, onow),
                     reused |-> (ouser.credentials.passcode \in oused)]
        /\ oused' = IF basicByCode(ouser, pw, onow)
                    THEN oused \cup {ouser.credentials.passcode} ELSE oused
        /\ UNCHANGED <<ouser, onow, ogens>>

\* time passes
oneTick ==
    /\ onow + OneShotTickMs <= MaxOneShotMs
    /\ onow' = onow + OneShotTickMs
    /\ UNCHANGED <<ouser, oused, olast, ogens>>

OneShotNext == oneGetCode \/ oneActivate \/ oneBasic \/ oneTick

\* C37: once a short code was used for one successful Basic authentication
\* or one successful activation, a later request that presents the same
\* code is not accepted, also before the code expires.
C37_OneShot ==
    IF olast = NoRes THEN TRUE
    ELSE olast.accepted => ~olast.reused

\* the part that holds: a code is accepted only while it has not expired,
\* and an activation is accepted once
C37_UnexpiredOnly ==
    IF olast = NoRes THEN TRUE
    ELSE olast.accepted =>
            /\ olast.code = olast.passcode.code
            /\ olast.at <= (olast.passcode.iat + olast.passcode.exp) * 1000
            /\ olast.kind = "activate" => ~olast.reused

\* a Basic authentication was accepted on a code that had activated the account
C37_Seen_Reused ==
    IF olast = NoRes THEN FALSE
    ELSE olast.kind = "basic" /\ olast.accepted /\ olast.reused

\* a code was refused after its expiry
C37_Seen_Expired ==
    IF olast = NoRes THEN FALSE
    ELSE /\ ~olast.accepted
         /\ olast.code = olast.passcode.code
         /\ olast.code # ""
         /\ olast.at > (olast.passcode.iat + olast.passcode.exp) * 1000

(***************************************************************************)
(* jxDB.lookup and jxDB.query by recipe name or recipe object.  A name is  *)
(* the sequence of its characters.  lookup puts the name between double    *)
(* quotes into the text of a JSONata expression; a double quote in the     *)
(* name ends the string literal there, and with the names of this model    *)
(* what follows is no expression, so jsonata() throws.                     *)
(***************************************************************************)
VARIABLES
    ndb,        \* SpecNever: the store: its recipes and its collection, NoCall before new jxDB
    nres        \* SpecNever: the last query call: what was asked, what came back, the store after

neverVars == <<ndb, nres>>

MaxNameLen == 2             \* the longest recipe name asked for
MaxNeverCalls == 2          \* the query calls made

Quote == "\""

NameChars == {"a", "b", Quote}

Names == UNION {[1..n -> NameChars] : n \in 0..MaxNameLen}

\* a recipe that is {}
EmptyRecipe == [defaults |-> Absent, header |-> Absent, expression |-> "", limit |-> 0]

\* the fields of a stored recipe that query reads
recipeOf(r) ==
    [defaults |-> r.defaults, header |-> r.header, expression |-> r.expression,
     limit |-> r.limit]

\* jsonata(`recipes[name="${recipeName}"]`) parses
parsesName(recipeName) == \A i \in 1..Len(recipeName) : recipeName[i] # Quote

\* jxDB.prototype.lookup: Object.assign({}, <the recipes of that name> || {}).
\* One recipe gives its copy, none gives {}, and several give an object of
\* the array's indexes, which has none of a recipe's fields.
lookupName(recipes, recipeName) ==
    IF ~parsesName(recipeName) THEN QThrown
    ELSE LET found == {i \in 1..Len(recipes) : recipes[i].name = recipeName}
         IN  IF Cardinality(found) = 1
             THEN recipeOf(recipes[CHOOSE i \in found : TRUE])
             ELSE EmptyRecipe

\* jxDB.prototype.query(recipeSpec, bindings) with a name
queryByName(store, recipeName, bindings) ==
    LET recipe == lookupName(store.recipes, recipeName)
    IN  IF recipe = QThrown THEN [raised |-> TRUE, val |-> Absent]
        ELSE [raised |-> FALSE,
              val |-> query([recipe |-> recipe, recs |-> store.recs], bindings).val]

\* jxDB.prototype.query(recipeSpec, bindings) with a recipe object
queryByObject(store, recipe, bindings) ==
    [raised |-> FALSE, val |-> query([recipe |-> recipe, recs |-> store.recs], bindings).val]

NeverRecipes ==
    [name : {<<"a">>}, defaults : {Absent, QObj(5)}, header : {Absent},
     expression : {"", "all", "byref", "bad"}, limit : {0}]

NeverObjects ==
    [defaults : {Absent, Num(0)}, header : {Absent}, expression : {"", "all", "bad"},
     limit : {0, 1}]

NeverInit == ndb = NoCall /\ nres = [kind |-> "none", n |-> 0]

\* new jxDB: the store holds one recipe named a, or two of that name
jxDBn ==
    /\ ndb = NoCall
    /\ \E r \in NeverRecipes, twice \in BOOLEAN, recs \in {<<>>, <<QObj(1)>>} :
        ndb' = [kind |-> "db", recipes |-> IF twice THEN <<r, r>> ELSE <<r>>, recs |-> recs]
    /\ UNCHANGED nres

\* db.query(name, bindings)
neverByName ==
    /\ ndb # NoCall
    /\ nres.n < MaxNeverCalls
    /\ \E recipeName \in Names, bindings \in QueryBindings :
       \E r \in {queryByName(ndb, recipeName, bindings)} :
          nres' = [kind |-> "name", name |-> recipeName, recipe |-> EmptyRecipe,
                   raised |-> r.raised, val |-> r.val, before |-> ndb, n |-> nres.n + 1]
    /\ UNCHANGED ndb

\* db.query(recipe, bindings)
neverByObject ==
    /\ ndb # NoCall
    /\ nres.n < MaxNeverCalls
    /\ \E recipe \in NeverObjects, bindings \in QueryBindings :
       \E r \in {queryByObject(ndb, recipe, bindings)} :
          nres' = [kind |-> "object", name |-> <<>>, recipe |-> recipe,
                   raised |-> r.raised, val |-> r.val, before |-> ndb, n |-> nres.n + 1]
    /\ UNCHANGED ndb

NeverNext == jxDBn \/ neverByName \/ neverByObject

\* the recipe the call was made for: the object given, or the one recipe
\* stored under the name, {} when the name is not that of one recipe
C38_Recipe ==
    IF nres.kind = "object" THEN nres.recipe
    ELSE LET found == {i \in 1..Len(ndb.recipes) : ndb.recipes[i].name = nres.name}
         IN  IF Cardinality(found) = 1 THEN recipeOf(ndb.recipes[CHOOSE i \in found : TRUE])
             ELSE EmptyRecipe

\* the call can produce no result: no expression, an expression that fails,
\* or one that finds nothing
C38_NoResult ==
    \/ C38_Recipe.expression \in {"", "bad"}
    \/ ndb.recs = <<>>

C38_Defaults ==
    IF C38_Recipe.defaults # Absent THEN C38_Recipe.defaults
    ELSE [t |-> "obj", o |-> EmptyRec]

\* C38: query raises for no recipe name or recipe object and no bindings;
\* when no result is produced it returns the recipe's defaults, or {}; and
\* it leaves the store as it was.
C38_QueryNeverRaises ==
    nres.kind # "none" =>
        /\ ~nres.raised
        /\ C38_NoResult => nres.val = C38_Defaults
        /\ ndb = nres.before

\* the part that holds: with a recipe object, and with a name without a
\* double quote, query raises nothing, returns the defaults or {} when
\* there is no result, and leaves the store as it was
C38_PlainNames ==
    (nres.kind # "none" /\ parsesName(nres.name)) => C38_QueryNeverRaises

\* a query by a name with a double quote raised
C38_Seen_Raised == nres.kind = "name" /\ nres.raised

\* a query whose expression failed returned the recipe's defaults
C38_Seen_Defaults ==
    /\ nres.kind = "name"
    /\ ~nres.raised
    /\ C38_Recipe.expression = "bad"
    /\ nres.val = QObj(5)

\* a query by an unknown name returned {}
C38_Seen_Unknown ==
    /\ nres.kind = "name"
    /\ nres.name = <<"b">>
    /\ nres.val = [t |-> "obj", o |-> EmptyRec]

(***************************************************************************)
(* apiware.api: several middleware instances in one process.  The module   *)
(* keeps db, site and scribble in variables of the module (apiware.js 24); *)
(* api(options) assigns them when an instance is created, and inquire,     *)
(* cache and the built-in actions read them when a request is handled.     *)
(***************************************************************************)
VARIABLES
    bglobal,    \* the module's variables site and db
    binst,      \* the instances created, each with the site and db it was created with
    bmods,      \* per database, the number of cache calls that modified it
    blast,      \* the last request handled: the instance, the instances created
                \* by then, the site and the database used
    bn          \* requests handled

bindVars == <<bglobal, binst, bmods, blast, bn>>

MaxInstances == 3
MaxBindRequests == 3

SiteNames == {"s1", "s2"}
DbNames == {"site", "aux"}
\* options.db of a handler: absent, or the name of one of the site's databases
DbOptions == {"undefined"} \cup DbNames
\* a database is one of the jxDB objects of a site
Databases == [site : SiteNames, name : DbNames]

\* apiware.js 182, for an absent and for a string options.db
optionsDb(self, option) ==
    IF option = "undefined" THEN [site |-> self, name |-> "site"]
    ELSE [site |-> self, name |-> option]

\* what a running apiCW, inquire, cache or built-in action reads as site and db
boundOf(global, inst) == global

BindPrefixes == {"$", "@"}
BindVerbs == {"get", "post"}

BindInit ==
    /\ bglobal = NoCall
    /\ binst = <<>>
    /\ bmods = [d \in Databases |-> 0]
    /\ blast = NoCall
    /\ bn = 0

\* apiware.api.call(site, options)
apiCreate ==
    /\ Len(binst) < MaxInstances
    /\ \E self \in SiteNames, option \in DbOptions :
        \E made \in {[kind |-> "bound", site |-> self, db |-> optionsDb(self, option)]} :
            /\ bglobal' = made
            /\ binst' = Append(binst, made)
    /\ UNCHANGED <<bmods, blast, bn>>

\* the apiCW returned to instance i handles a request: $ get is inquire,
\* $ post is cache, @ is a built-in action on the site's users database
apiBound ==
    /\ bn < MaxBindRequests
    /\ \E i \in 1..Len(binst), prefix \in BindPrefixes, verb \in BindVerbs :
        \E b \in {boundOf(bglobal, binst[i])} :
            /\ blast' = [kind |-> "request", inst |-> i, created |-> Len(binst),
                         prefix |-> prefix, verb |-> verb,
                         site |-> b.site, db |-> b.db]
            /\ bmods' = IF prefix = "$" /\ verb = "post"
                        THEN [bmods EXCEPT ![b.db] = @ + 1]
                        ELSE bmods
    /\ bn' = bn + 1
    /\ UNCHANGED <<bglobal, binst>>

BindNext == apiCreate \/ apiBound

C40_Handled == blast.kind = "request"

\* C40: every request handled by an api middleware instance is looked up,
\* queried and modified against the database and the site that this
\* instance was created with.
C40_InstanceBinding ==
    C40_Handled =>
        /\ blast.db = binst[blast.inst].db
        /\ blast.site = binst[blast.inst].site

\* C40, the part that holds: every request is handled against the database
\* and the site of the instance created last, so an instance that is the
\* only one, or the last one created, uses its own.
C40_LastCreated ==
    C40_Handled =>
        /\ blast.db = binst[blast.created].db
        /\ blast.site = binst[blast.created].site

\* a cache call of the first instance modified the database of another site
C40_Seen_OtherDb ==
    /\ C40_Handled
    /\ blast.inst = 1 /\ blast.prefix = "$" /\ blast.verb = "post"
    /\ blast.db # binst[1].db
    /\ bmods[blast.db] > 0 /\ bmods[binst[1].db] = 0

\* a built-in action of an instance ran on another site
C40_Seen_OtherSite ==
    /\ C40_Handled
    /\ blast.prefix = "@"
    /\ blast.site # binst[blast.inst].site

\* a request of the instance created last used its own database
C40_Seen_Own ==
    /\ C40_Handled
    /\ blast.inst = blast.created /\ blast.created > 1
    /\ blast.db = binst[blast.inst].db
    /\ binst[1].db # blast.db

(***************************************************************************)
(* The specifications.                                                     *)
(***************************************************************************)
vars == <<tokVars, errVars, rtVars, dbVars, authVars, acctVars, apiVars, mergeVars, queryVars, persistVars, loginVars, activateVars, contentVars, cacheVars, pathVars, gzipVars, bodyVars, pipeVars, uploadVars, proxyVars, sniVars, watchVars, oneShotVars, neverVars, bindVars>>

Init == TokInit /\ ErrInit /\ RtInit /\ DbInit /\ AuthInit /\ AcctInit /\ ApiInit /\ MergeInit /\ QueryInit /\ PersistInit /\ LoginInit /\ ActivateInit /\ ContentInit /\ CacheInit /\ PathInit /\ GzipInit /\ BodyInit /\ PipeInit /\ UploadInit /\ ProxyInit /\ SniInit /\ WatchInit /\ OneShotInit /\ NeverInit /\ BindInit

SpecToken ==
    Init /\ [][TokNext /\ UNCHANGED <<errVars, rtVars, dbVars, authVars, acctVars, apiVars, mergeVars, queryVars, persistVars, loginVars, activateVars, contentVars, cacheVars, pathVars, gzipVars, bodyVars, pipeVars, uploadVars, proxyVars, sniVars, watchVars, oneShotVars, neverVars, bindVars>>]_vars

SpecErr ==
    Init /\ [][ErrNext /\ UNCHANGED <<tokVars, rtVars, dbVars, authVars, acctVars, apiVars, mergeVars, queryVars, persistVars, loginVars, activateVars, contentVars, cacheVars, pathVars, gzipVars, bodyVars, pipeVars, uploadVars, proxyVars, sniVars, watchVars, oneShotVars, neverVars, bindVars>>]_vars

SpecRouter ==
    Init /\ [][RtNext /\ UNCHANGED <<tokVars, errVars, dbVars, authVars, acctVars, apiVars, mergeVars, queryVars, persistVars, loginVars, activateVars, contentVars, cacheVars, pathVars, gzipVars, bodyVars, pipeVars, uploadVars, proxyVars, sniVars, watchVars, oneShotVars, neverVars, bindVars>>]_vars

SpecModify ==
    Init /\ [][DbNext /\ UNCHANGED <<tokVars, errVars, rtVars, authVars, acctVars, apiVars, mergeVars, queryVars, persistVars, loginVars, activateVars, contentVars, cacheVars, pathVars, gzipVars, bodyVars, pipeVars, uploadVars, proxyVars, sniVars, watchVars, oneShotVars, neverVars, bindVars>>]_vars

SpecAuth ==
    Init /\ [][AuthNext /\ UNCHANGED <<tokVars, errVars, rtVars, dbVars, acctVars, apiVars, mergeVars, queryVars, persistVars, loginVars, activateVars, contentVars, cacheVars, pathVars, gzipVars, bodyVars, pipeVars, uploadVars, proxyVars, sniVars, watchVars, oneShotVars, neverVars, bindVars>>]_vars

SpecAccount ==
    Init /\ [][AcctNext /\ UNCHANGED <<tokVars, errVars, rtVars, dbVars, authVars, apiVars, mergeVars, queryVars, persistVars, loginVars, activateVars, contentVars, cacheVars, pathVars, gzipVars, bodyVars, pipeVars, uploadVars, proxyVars, sniVars, watchVars, oneShotVars, neverVars, bindVars>>]_vars

SpecApi ==
    Init /\ [][ApiNext /\ UNCHANGED <<tokVars, errVars, rtVars, dbVars, authVars, acctVars, mergeVars, queryVars, persistVars, loginVars, activateVars, contentVars, cacheVars, pathVars, gzipVars, bodyVars, pipeVars, uploadVars, proxyVars, sniVars, watchVars, oneShotVars, neverVars, bindVars>>]_vars

SpecMerge ==
    Init /\ [][MergeNext /\ UNCHANGED <<tokVars, errVars, rtVars, dbVars, authVars, acctVars, apiVars, queryVars, persistVars, loginVars, activateVars, contentVars, cacheVars, pathVars, gzipVars, bodyVars, pipeVars, uploadVars, proxyVars, sniVars, watchVars, oneShotVars, neverVars, bindVars>>]_vars

SpecQuery ==
    Init /\ [][QueryNext /\ UNCHANGED <<tokVars, errVars, rtVars, dbVars, authVars, acctVars, apiVars, mergeVars, persistVars, loginVars, activateVars, contentVars, cacheVars, pathVars, gzipVars, bodyVars, pipeVars, uploadVars, proxyVars, sniVars, watchVars, oneShotVars, neverVars, bindVars>>]_vars

SpecPersist ==
    Init /\ [][PersistNext /\ UNCHANGED <<tokVars, errVars, rtVars, dbVars, authVars, acctVars, apiVars, mergeVars, queryVars, loginVars, activateVars, contentVars, cacheVars, pathVars, gzipVars, bodyVars, pipeVars, uploadVars, proxyVars, sniVars, watchVars, oneShotVars, neverVars, bindVars>>]_vars

SpecLogin ==
    Init /\ [][LoginNext /\ UNCHANGED <<tokVars, errVars, rtVars, dbVars, authVars, acctVars, apiVars, mergeVars, queryVars, persistVars, activateVars, contentVars, cacheVars, pathVars, gzipVars, bodyVars, pipeVars, uploadVars, proxyVars, sniVars, watchVars, oneShotVars, neverVars, bindVars>>]_vars

SpecActivate ==
    Init /\ [][ActivateNext /\ UNCHANGED <<tokVars, errVars, rtVars, dbVars, authVars, acctVars, apiVars, mergeVars, queryVars, persistVars, loginVars, contentVars, cacheVars, pathVars, gzipVars, bodyVars, pipeVars, uploadVars, proxyVars, sniVars, watchVars, oneShotVars, neverVars, bindVars>>]_vars

SpecContent ==
    Init /\ [][ContentNext /\ UNCHANGED <<tokVars, errVars, rtVars, dbVars, authVars, acctVars, apiVars, mergeVars, queryVars, persistVars, loginVars, activateVars, cacheVars, pathVars, gzipVars, bodyVars, pipeVars, uploadVars, proxyVars, sniVars, watchVars, oneShotVars, neverVars, bindVars>>]_vars

SpecCache ==
    Init /\ [][CacheNext /\ UNCHANGED <<tokVars, errVars, rtVars, dbVars, authVars, acctVars, apiVars, mergeVars, queryVars, persistVars, loginVars, activateVars, contentVars, pathVars, gzipVars, bodyVars, pipeVars, uploadVars, proxyVars, sniVars, watchVars, oneShotVars, neverVars, bindVars>>]_vars

SpecPath ==
    Init /\ [][PathNext /\ UNCHANGED <<tokVars, errVars, rtVars, dbVars, authVars, acctVars, apiVars, mergeVars, queryVars, persistVars, loginVars, activateVars, contentVars, cacheVars, gzipVars, bodyVars, pipeVars, uploadVars, proxyVars, sniVars, watchVars, oneShotVars, neverVars, bindVars>>]_vars

SpecGzip ==
    Init /\ [][GzipNext /\ UNCHANGED <<tokVars, errVars, rtVars, dbVars, authVars, acctVars, apiVars, mergeVars, queryVars, persistVars, loginVars, activateVars, contentVars, cacheVars, pathVars, bodyVars, pipeVars, uploadVars, proxyVars, sniVars, watchVars, oneShotVars, neverVars, bindVars>>]_vars

SpecBody ==
    Init /\ [][BodyNext /\ UNCHANGED <<tokVars, errVars, rtVars, dbVars, authVars, acctVars, apiVars, mergeVars, queryVars, persistVars, loginVars, activateVars, contentVars, cacheVars, pathVars, gzipVars, pipeVars, uploadVars, proxyVars, sniVars, watchVars, oneShotVars, neverVars, bindVars>>]_vars

SpecPipeline ==
    Init /\ [][PipeNext /\ UNCHANGED <<tokVars, errVars, rtVars, dbVars, authVars, acctVars, apiVars, mergeVars, queryVars, persistVars, loginVars, activateVars, contentVars, cacheVars, pathVars, gzipVars, bodyVars, uploadVars, proxyVars, sniVars, watchVars, oneShotVars, neverVars, bindVars>>]_vars

SpecUpload ==
    Init /\ [][UploadNext /\ UNCHANGED <<tokVars, errVars, rtVars, dbVars, authVars, acctVars, apiVars, mergeVars, queryVars, persistVars, loginVars, activateVars, contentVars, cacheVars, pathVars, gzipVars, bodyVars, pipeVars, proxyVars, sniVars, watchVars, oneShotVars, neverVars, bindVars>>]_vars

SpecProxy ==
    Init /\ [][ProxyNext /\ UNCHANGED <<tokVars, errVars, rtVars, dbVars, authVars, acctVars, apiVars, mergeVars, queryVars, persistVars, loginVars, activateVars, contentVars, cacheVars, pathVars, gzipVars, bodyVars, pipeVars, uploadVars, sniVars, watchVars, oneShotVars, neverVars, bindVars>>]_vars

SpecSni ==
    Init /\ [][SniNext /\ UNCHANGED <<tokVars, errVars, rtVars, dbVars, authVars, acctVars, apiVars, mergeVars, queryVars, persistVars, loginVars, activateVars, contentVars, cacheVars, pathVars, gzipVars, bodyVars, pipeVars, uploadVars, proxyVars, watchVars, oneShotVars, neverVars, bindVars>>]_vars

\* SpecSni where every event is delivered and every callback and awaited
\* step of a reload comes
SpecSniLive ==
    /\ SpecSni
    /\ \A t \in Tags : WF_vars(watchEvent(t) /\ UNCHANGED <<tokVars, errVars, rtVars, dbVars, authVars, acctVars, apiVars, mergeVars, queryVars, persistVars, loginVars, activateVars, contentVars, cacheVars, pathVars, gzipVars, bodyVars, pipeVars, uploadVars, proxyVars, watchVars, oneShotVars, neverVars, bindVars>>)
    /\ \A i \in Slots : WF_vars(statDone(i) /\ UNCHANGED <<tokVars, errVars, rtVars, dbVars, authVars, acctVars, apiVars, mergeVars, queryVars, persistVars, loginVars, activateVars, contentVars, cacheVars, pathVars, gzipVars, bodyVars, pipeVars, uploadVars, proxyVars, watchVars, oneShotVars, neverVars, bindVars>>)
    /\ \A i \in Slots : WF_vars(readKeyDone(i) /\ UNCHANGED <<tokVars, errVars, rtVars, dbVars, authVars, acctVars, apiVars, mergeVars, queryVars, persistVars, loginVars, activateVars, contentVars, cacheVars, pathVars, gzipVars, bodyVars, pipeVars, uploadVars, proxyVars, watchVars, oneShotVars, neverVars, bindVars>>)
    /\ \A i \in Slots : WF_vars(readCertDone(i) /\ UNCHANGED <<tokVars, errVars, rtVars, dbVars, authVars, acctVars, apiVars, mergeVars, queryVars, persistVars, loginVars, activateVars, contentVars, cacheVars, pathVars, gzipVars, bodyVars, pipeVars, uploadVars, proxyVars, watchVars, oneShotVars, neverVars, bindVars>>)
    /\ \A i \in Slots : WF_vars(execDone(i) /\ UNCHANGED <<tokVars, errVars, rtVars, dbVars, authVars, acctVars, apiVars, mergeVars, queryVars, persistVars, loginVars, activateVars, contentVars, cacheVars, pathVars, gzipVars, bodyVars, pipeVars, uploadVars, proxyVars, watchVars, oneShotVars, neverVars, bindVars>>)

SpecWatch ==
    Init /\ [][WatchNext /\ UNCHANGED <<tokVars, errVars, rtVars, dbVars, authVars, acctVars, apiVars, mergeVars, queryVars, persistVars, loginVars, activateVars, contentVars, cacheVars, pathVars, gzipVars, bodyVars, pipeVars, uploadVars, proxyVars, sniVars, oneShotVars, neverVars, bindVars>>]_vars

SpecOneShot ==
    Init /\ [][OneShotNext /\ UNCHANGED <<tokVars, errVars, rtVars, dbVars, authVars, acctVars, apiVars, mergeVars, queryVars, persistVars, loginVars, activateVars, contentVars, cacheVars, pathVars, gzipVars, bodyVars, pipeVars, uploadVars, proxyVars, sniVars, watchVars, neverVars, bindVars>>]_vars

SpecNever ==
    Init /\ [][NeverNext /\ UNCHANGED <<tokVars, errVars, rtVars, dbVars, authVars, acctVars, apiVars, mergeVars, queryVars, persistVars, loginVars, activateVars, contentVars, cacheVars, pathVars, gzipVars, bodyVars, pipeVars, uploadVars, proxyVars, sniVars, watchVars, oneShotVars, bindVars>>]_vars

SpecBind ==
    Init /\ [][BindNext /\ UNCHANGED <<tokVars, errVars, rtVars, dbVars, authVars, acctVars, apiVars, mergeVars, queryVars, persistVars, loginVars, activateVars, contentVars, cacheVars, pathVars, gzipVars, bodyVars, pipeVars, uploadVars, proxyVars, sniVars, watchVars, oneShotVars, neverVars>>]_vars

====
